---- MODULE Spec2Model ----
(***************************************************************************)
(* Model of the SFDX-Falcon toolbelt core: the TaskRunner singleton and    *)
(* its Listr batch, the SfdxTask task function, and the SfdxFalconError    *)
(* constructor (scripts/js/sfdx-falcon/task-runner, error).                *)
(*                                                                         *)
(* JavaScript values are modelled as follows.                              *)
(*   - an optional value is a sequence: << >> is undefined/null and <<v>>  *)
(*     is the value v;                                                     *)
(*   - a string that the code inspects character by character (a command   *)
(*     string) is a sequence of one-character strings;                     *)
(*   - an object with identity (a TaskRunner, a context object) is a       *)
(*     positive number, 0 being null; context objects live in `heap`.      *)
(***************************************************************************)
EXTENDS Integers, Sequences, FiniteSets, TLC

\* ------------------------------------------------------------------ bounds
MaxTasks     == 3   \* tasks added to a runner that runs them one at a time
MaxConcTasks == 2   \* tasks added to a runner whose options say concurrent
MaxCtx       == 2   \* context objects allocated per behaviour

\* ------------------------------------------------------- JavaScript values
Undefined == << >>
Some(v)   == << v >>
IsDefined(o) == o # << >>
Val(o)    == o[1]

Null == 0

\* ----------------------------------------------------------- native Error
\* new Error(message, options): the message is kept, `name` is inherited from
\* Error.prototype, and a cause is installed only when the SECOND argument
\* is an object that has a `cause` property.  Further arguments are ignored.
StringArg(s) == [kind |-> "string", cause |-> Undefined]

NativeError(message, options) ==
  [ class   |-> "Error",
    message |-> message,
    name    |-> "Error",
    cause   |-> IF options.kind = "object" THEN options.cause ELSE Undefined ]

\* ------------------------------------------------------- SfdxFalconError
\* error.resultStack of an arbitrary thrown value (undefined when the value
\* has no such property); a result stack is the list of its lines.
ResultStackOf(e) ==
  IF "resultStack" \in DOMAIN e THEN e.resultStack ELSE << >>

\* name || 'SfdxFalconError'
ThisName(name) ==
  IF IsDefined(name) /\ Val(name) # "" THEN Val(name) ELSE "SfdxFalconError"

\* source = 'Unhandled Exception' (default parameter: only for undefined)
ThisSource(source) ==
  IF IsDefined(source) THEN Val(source) ELSE "Unhandled Exception"

\* new SfdxFalconError(message, name, source, cause, actions, exitCode).
\* The class extends the native Error and calls
\*   super(message, thisName, actions || [], exitCode || 1, cause)
\* so the native constructor receives the string thisName as its options
\* argument; name, actions, exitCode and cause are assigned nowhere else.
SfdxFalconError(message, name, source, cause, actions, exitCode) ==
  LET base == NativeError(message, StringArg(ThisName(name)))
  IN  [ class       |-> "SfdxFalconError",
        message     |-> base.message,
        name        |-> base.name,
        cause       |-> base.cause,
        actions     |-> Undefined,
        exitCode    |-> Undefined,
        source      |-> ThisSource(source),
        data        |-> << >>,
        detail      |-> << >>,
        resultStack |-> IF IsDefined(cause) THEN ResultStackOf(Val(cause))
                                            ELSE << >> ]

IsSfdxFalconError(e) == e.class = "SfdxFalconError"

\* ---------------------------------------------------------- command strings
Lower(c) ==
  CASE c = "S" -> "s" [] c = "F" -> "f" [] c = "D" -> "d" [] c = "X" -> "x"
    [] OTHER -> c

RECURSIVE SkipSpaces(_)
SkipSpaces(s) ==
  IF s # << >> /\ Head(s) = " " THEN SkipSpaces(Tail(s)) ELSE s

HasPrefixIgnoreCase(s, p) ==
  /\ Len(s) >= Len(p)
  /\ \A k \in 1..Len(p) : Lower(s[k]) = p[k]

\* sfCliCommandRegEx = /^ *(?:sf |sfdx )/i
isSfCliCommandString(s) ==
  LET r == SkipSpaces(s)
  IN  \/ HasPrefixIgnoreCase(r, <<"s", "f", " ">>)
      \/ HasPrefixIgnoreCase(r, <<"s", "f", "d", "x", " ">>)

IsWhite(c) == c \in {" ", "\t", "\n"}

RECURSIVE TrimStart(_)
TrimStart(s) ==
  IF s # << >> /\ IsWhite(Head(s)) THEN TrimStart(Tail(s)) ELSE s

RECURSIVE TrimEnd(_)
TrimEnd(s) ==
  IF s # << >> /\ IsWhite(s[Len(s)]) THEN TrimEnd(SubSeq(s, 1, Len(s) - 1))
                                      ELSE s

\* String.prototype.trim
Trim(s) == TrimEnd(TrimStart(s))

JsonFlag == <<" ", "-", "-", "j", "s", "o", "n">>

\* ------------------------------------------------------------------ SfdxTask
\* new SfdxTask(title, commandString, options): the defaults are merged
\* under the caller's options, the flags are coerced to booleans and the
\* command string is trimmed and given the --json flag.
NoOptions ==
  [ suppressErrors |-> Undefined, renderStdioOnError |-> Undefined,
    concurrent |-> Undefined, onSuccess |-> Undefined, onError |-> Undefined ]

Truthy(o) == IsDefined(o) /\ Val(o) = TRUE

SfdxTaskValid(title, commandString) ==
  /\ title # ""
  /\ commandString # << >>
  /\ isSfCliCommandString(commandString)

SfdxTask(title, commandString, options) ==
  [ title              |-> title,
    commandString      |-> Trim(commandString) \o JsonFlag,
    onSuccess          |-> IsDefined(options.onSuccess),
    onError            |-> IsDefined(options.onError),
    suppressErrors     |-> Truthy(options.suppressErrors),
    renderStdioOnError |-> Truthy(options.renderStdioOnError),
    concurrent         |-> Truthy(options.concurrent) ]

\* ------------------------------------------------------------ input sets
CmdA == <<"s", "f", " ", "a">>
CmdB == <<" ", "S", "F", "D", "X", " ", "b", " ">>

Fn == Some("function")
Yes == Some(TRUE)

\* (title, commandString, options) triples handed to new SfdxTask.
TaskInputs ==
  { [title |-> "t1", cmd |-> CmdA, options |-> NoOptions],
    [title |-> "t2", cmd |-> CmdB,
       options |-> [NoOptions EXCEPT !.suppressErrors = Yes]],
    [title |-> "t3", cmd |-> CmdA,
       options |-> [NoOptions EXCEPT !.onSuccess = Fn, !.onError = Fn,
                                     !.renderStdioOnError = Yes]],
    [title |-> "t4", cmd |-> CmdB,
       options |-> [NoOptions EXCEPT !.suppressErrors = Yes, !.onError = Fn,
                                     !.renderStdioOnError = Yes]],
    [title |-> "t5", cmd |-> CmdA,
       options |-> [NoOptions EXCEPT !.concurrent = Yes, !.onError = Fn]],
    [title |-> "t6", cmd |-> CmdB,
       options |-> [NoOptions EXCEPT !.concurrent = Yes, !.suppressErrors = Yes,
                                     !.onSuccess = Fn] ] }

\* The options argument of new TaskRunner(options): undefined, or an
\* options object for Listr.
DefaultOptions == [concurrent |-> FALSE, exitOnError |-> TRUE]

RunnerOptionInputs ==
  { Undefined, Some([concurrent |-> TRUE, exitOnError |-> TRUE]) }

\* ------------------------------------------------------------------- state
VARIABLES
  trInstance,   \* TaskRunner.trInstance: Null or the id of the instance
  constructed,  \* number of TaskRunner constructions that completed
  lastCall,     \* what the latest step returned or threw, when that step
                \* was a call of getInstance() or of new TaskRunner()
  ctx,          \* tr.ctx: id of a context object in heap
  options,      \* tr.options, as given to the Listr constructor
  heap,         \* the context objects, by id
  tasks,        \* the tasks added to Listr, in order
  rt,           \* per task: where its task function stands
  isRunning,    \* tr.isRunning
  run,          \* the promise returned by runTasks()
  errIn,        \* arguments of a stand-alone new SfdxFalconError(...)
  errOut,       \* the error it produced, once constructed
  call,         \* a stand-alone call of a library function: its arguments
  outcome,      \* what that call returned or threw, once it was made
  enabledDebugNamespaces,  \* SfdxFalconDebug.enabledDebugNamespaces (a Map)
  debugAll,     \* SfdxFalconDebug.debugAll
  debugOut      \* what the latest msg/obj/str call wrote, if it was one

libVars == << call, outcome, enabledDebugNamespaces, debugAll, debugOut >>

vars == << trInstance, constructed, lastCall, ctx, options, heap,
           tasks, rt, isRunning, run, errIn, errOut, libVars >>

runnerVars == << trInstance, constructed, lastCall, ctx, options,
                 heap, tasks, rt, isRunning, run >>

NoCall == [op |-> "none", ok |-> TRUE, value |-> Null, error |-> Undefined]
NoRun  == [state |-> "idle", value |-> Null, error |-> Undefined]
NoErrIn ==
  [ message |-> "", name |-> Undefined, source |-> Undefined,
    cause |-> Undefined, actions |-> Undefined, exitCode |-> Undefined ]

InitRunner ==
  /\ trInstance = Null
  /\ constructed = 0
  /\ lastCall = NoCall
  /\ ctx = Null
  /\ options = [concurrent |-> FALSE, exitOnError |-> TRUE, ctx |-> Null]
  /\ heap = << >>
  /\ tasks = << >>
  /\ rt = << >>
  /\ isRunning = FALSE
  /\ run = NoRun

NoLibCall == [fn |-> "none"]

\* SfdxFalconDebug.enabledDebugNamespaces = new Map();
\* SfdxFalconDebug.debugAll = false;
InitDebug ==
  /\ enabledDebugNamespaces = [t |-> {}, f |-> {}]
  /\ debugAll = FALSE
  /\ debugOut = Undefined

InitLib ==
  /\ call = NoLibCall
  /\ outcome = Undefined
  /\ InitDebug

Init ==
  /\ InitRunner
  /\ errIn = NoErrIn
  /\ errOut = Undefined
  /\ InitLib

\* ------------------------------------------------------------ TaskRunner
\* An array value, a number value and undefined, as the possible values of
\* ctx.commandStrings.
ArrayVal(a)  == [kind |-> "array",     arr |-> a,     num |-> 0]
NumberVal(n) == [kind |-> "number",    arr |-> << >>, num |-> n]
UndefinedVal == [kind |-> "undefined", arr |-> << >>, num |-> 0]

\* {commandStrings:[]} and {}
DefaultCtx == [commandStrings |-> ArrayVal(<< >>), written |-> {}]
EmptyCtx   == [commandStrings |-> UndefinedVal,    written |-> {}]

\* Mutant: the constructor without its guard.
ConstructorRejects_NoGuard(inst) == FALSE

\* if (TaskRunner.trInstance !== null) throw ...
ConstructorRejects(inst) == inst # Null

AlreadyExistsError ==
  SfdxFalconError("An instance of TaskRunner already exists.",
                  Some("TaskRunner Error"), Undefined, Undefined,
                  Undefined, Undefined)

\* The body of the constructor, past its guard.
Construct(opts) ==
  LET id  == constructed + 1
      cid == Len(heap) + 1
      o   == IF IsDefined(opts) THEN Val(opts) ELSE DefaultOptions
  IN  /\ heap' = Append(heap, DefaultCtx)
      /\ ctx' = cid
      /\ options' = [concurrent |-> o.concurrent,
                     exitOnError |-> o.exitOnError, ctx |-> cid]
      /\ tasks' = << >>
      /\ rt' = << >>
      /\ isRunning' = FALSE
      /\ run' = NoRun
      /\ trInstance' = id
      /\ constructed' = id

\* new TaskRunner(options), called directly.
NewTaskRunner(opts) ==
  /\ IF ConstructorRejects(trInstance)
       THEN /\ lastCall' = [op |-> "new", ok |-> FALSE, value |-> Null,
                            error |-> Some(AlreadyExistsError)]
            /\ UNCHANGED << trInstance, constructed, ctx, options, heap,
                            tasks, rt, isRunning, run >>
       ELSE /\ Len(heap) < MaxCtx
            /\ Construct(opts)
            /\ lastCall' = [op |-> "new", ok |-> TRUE,
                            value |-> constructed + 1, error |-> Undefined]
  /\ UNCHANGED << errIn, errOut, libVars >>

\* TaskRunner.getInstance()
GetInstance ==
  /\ IF trInstance = Null
       THEN /\ Len(heap) < MaxCtx
            /\ Construct(Undefined)
            /\ lastCall' = [op |-> "getInstance", ok |-> TRUE,
                            value |-> constructed + 1, error |-> Undefined]
       ELSE /\ lastCall' = [op |-> "getInstance", ok |-> TRUE,
                            value |-> trInstance, error |-> Undefined]
            /\ UNCHANGED << trInstance, constructed, ctx, options, heap,
                            tasks, rt, isRunning, run >>
  /\ UNCHANGED << errIn, errOut, libVars >>

\* const ctx = {}; tr.ctx = ctx;  buildDevEnv replaces the context of the
\* runner it has just obtained, before it adds its tasks.
SetCtx ==
  /\ trInstance # Null
  /\ run.state = "idle"
  /\ tasks = << >>
  /\ Len(heap) < MaxCtx
  /\ heap' = Append(heap, EmptyCtx)
  /\ ctx' = Len(heap) + 1
  /\ lastCall' = NoCall
  /\ UNCHANGED << trInstance, constructed, options,
                  tasks, rt, isRunning, run, errIn, errOut, libVars >>

\* Array.prototype.push: the array afterwards and the value push returns.
ArrayPush(a, x) == [array |-> Append(a, x), ret |-> Len(a) + 1]

\* ctx?.commandStrings && Array.isArray(ctx.commandStrings)
HasCommandStringsArray(c) == c.commandStrings.kind = "array"

\* The commandStrings bookkeeping of addTask.
RecordCommandString(c, cmd) ==
  IF HasCommandStringsArray(c)
    THEN [c EXCEPT !.commandStrings =
                      ArrayVal(ArrayPush(c.commandStrings.arr, cmd).array)]
    ELSE [c EXCEPT !.commandStrings = NumberVal(ArrayPush(<< >>, cmd).ret)]

FreshRt ==
  [ status |-> "pending", proc |-> "none", caught |-> Undefined,
    calls |-> << >>, thrown |-> Undefined, trace |-> << >> ]

\* tr.addTask(new SfdxTask(title, cmd, options)), before the batch is run.
AddTask(in) ==
  /\ trInstance # Null
  /\ run.state = "idle"
  /\ Len(tasks) < (IF options.concurrent THEN MaxConcTasks ELSE MaxTasks)
  /\ SfdxTaskValid(in.title, in.cmd)
  /\ LET t == SfdxTask(in.title, in.cmd, in.options)
     IN  /\ heap' = [heap EXCEPT ![ctx] = RecordCommandString(@, t.commandString)]
         /\ tasks' = Append(tasks, t)
         /\ rt' = Append(rt, FreshRt)
  /\ lastCall' = NoCall
  /\ UNCHANGED << trInstance, constructed, ctx, options,
                  isRunning, run, errIn, errOut, libVars >>

\* ------------------------------------------------------------ utilities/json
\* A string buffer is a sequence of characters.  Esc stands for the single
\* character U+001B.
Esc == "ESC"

\* Values that JSON.parse can return: null, a number, a string or an object
\* whose members are kept in insertion order, one per key.
JNull   == [t |-> "null", n |-> 0, s |-> << >>, m |-> << >>]
JNum(n) == [t |-> "num",  n |-> n, s |-> << >>, m |-> << >>]
JStr(s) == [t |-> "str",  n |-> 0, s |-> s,     m |-> << >>]
JObj(m) == [t |-> "obj",  n |-> 0, s |-> << >>, m |-> m]

OwnKeys(v) == { v.m[k].k : k \in 1..Len(v.m) }

\* obj[key] = value
SetMember(m, key, value) ==
  IF \E i \in 1..Len(m) : m[i].k = key
    THEN [i \in 1..Len(m) |->
            IF m[i].k = key THEN [k |-> key, v |-> value] ELSE m[i]]
    ELSE Append(m, [k |-> key, v |-> value])

IsDigit(c) == c \in {"0", "1", "2", "3", "4", "5", "6", "7", "8", "9"}

DigitVal(c) ==
  CASE c = "0" -> 0 [] c = "1" -> 1 [] c = "2" -> 2 [] c = "3" -> 3
    [] c = "4" -> 4 [] c = "5" -> 5 [] c = "6" -> 6 [] c = "7" -> 7
    [] c = "8" -> 8 [] OTHER -> 9

ParseFail        == [ok |-> FALSE, v |-> JNull, rest |-> << >>]
ParseOk(v, rest) == [ok |-> TRUE,  v |-> v,     rest |-> rest]

\* The digits of a JSON number: "0", or a non-zero digit and more digits.
RECURSIVE TakeDigits(_, _)
TakeDigits(s, acc) ==
  IF s # << >> /\ IsDigit(Head(s))
    THEN TakeDigits(Tail(s), 10 * acc + DigitVal(Head(s)))
    ELSE ParseOk(JNum(acc), s)

\* The characters of a JSON string up to its closing quote; a control
\* character inside a string is a syntax error.
RECURSIVE TakeString(_, _)
TakeString(s, acc) ==
  IF s = << >> \/ Head(s) = Esc \/ Head(s) \in {"\n", "\t"}
    THEN [ok |-> FALSE, str |-> << >>, rest |-> << >>]
    ELSE IF Head(s) = "\""
      THEN [ok |-> TRUE, str |-> acc, rest |-> Tail(s)]
      ELSE TakeString(Tail(s), Append(acc, Head(s)))

IsNullLiteral(s) ==
  Len(s) >= 4 /\ SubSeq(s, 1, 4) = <<"n", "u", "l", "l">>

RECURSIVE ParseValue(_)
RECURSIVE ParseMembers(_, _)

ParseValue(s0) ==
  LET s == TrimStart(s0)
  IN  IF s = << >> THEN ParseFail
      ELSE IF Head(s) = "{"
        THEN LET r == TrimStart(Tail(s))
             IN  IF r # << >> /\ Head(r) = "}"
                   THEN ParseOk(JObj(<< >>), Tail(r))
                   ELSE ParseMembers(r, << >>)
      ELSE IF Head(s) = "\""
        THEN LET q == TakeString(Tail(s), << >>)
             IN  IF q.ok THEN ParseOk(JStr(q.str), q.rest) ELSE ParseFail
      ELSE IF Head(s) = "0" THEN ParseOk(JNum(0), Tail(s))
      ELSE IF IsDigit(Head(s)) THEN TakeDigits(s, 0)
      ELSE IF IsNullLiteral(s) THEN ParseOk(JNull, SubSeq(s, 5, Len(s)))
      ELSE ParseFail

ParseMembers(s, acc) ==
  IF s = << >> \/ Head(s) # "\"" THEN ParseFail
  ELSE
    LET key == TakeString(Tail(s), << >>)
        c   == TrimStart(key.rest)
        val == ParseValue(Tail(c))
        d   == TrimStart(val.rest)
        m   == SetMember(acc, key.str, val.v)
    IN  IF ~key.ok \/ c = << >> \/ Head(c) # ":" THEN ParseFail
        ELSE IF ~val.ok \/ d = << >> THEN ParseFail
        ELSE IF Head(d) = "}" THEN ParseOk(JObj(m), Tail(d))
        ELSE IF Head(d) = "," THEN ParseMembers(TrimStart(Tail(d)), m)
        ELSE ParseFail

\* JSON.parse(text): the value, or a SyntaxError when the text is not
\* exactly one JSON value between optional white space.
WholeText(r) ==
  IF r.ok /\ TrimStart(r.rest) = << >>
    THEN [ok |-> TRUE, v |-> r.v]
    ELSE [ok |-> FALSE, v |-> JNull]

JSONparse(text) == WholeText(ParseValue(text))

\* String.prototype.indexOf / lastIndexOf, zero based, -1 when absent.
IndexOf(s, c) ==
  IF \E i \in 1..Len(s) : s[i] = c
    THEN (CHOOSE i \in 1..Len(s) :
            s[i] = c /\ \A j \in 1..(i - 1) : s[j] # c) - 1
    ELSE -1

LastIndexOf(s, c) ==
  IF \E i \in 1..Len(s) : s[i] = c
    THEN (CHOOSE i \in 1..Len(s) :
            s[i] = c /\ \A j \in (i + 1)..Len(s) : s[j] # c) - 1
    ELSE -1

\* String.prototype.substring(start, end): both indexes are clamped to
\* 0..length and swapped when start is greater than end.
Clamp(i, n) == IF i < 0 THEN 0 ELSE IF i > n THEN n ELSE i

Substring(s, start, end) ==
  LET a  == Clamp(start, Len(s))
      b  == Clamp(end, Len(s))
      lo == IF a <= b THEN a ELSE b
      hi == IF a <= b THEN b ELSE a
  IN  SubSeq(s, lo + 1, hi)

Unparsed == <<"u", "n", "p", "a", "r", "s", "e", "d">>

HasOwnPropertyKey ==
  <<"h", "a", "s", "O", "w", "n", "P", "r", "o", "p", "e", "r", "t", "y">>

\* safeParse(contentToParse)
ParsedOrUnparsed(content, parsed) ==
  IF parsed.ok THEN parsed.v
  ELSE JObj(<< [k |-> Unparsed, v |-> JStr(content)] >>)

ParseContent(content) == ParsedOrUnparsed(content, JSONparse(content))

safeParse(contentToParse) ==
  ParseContent(IF contentToParse = << >> THEN <<"{", "}">>
                                         ELSE contentToParse)

Returned(v)   == [threw |-> FALSE, value |-> v,     error |-> ""]
Threw(error)  == [threw |-> TRUE,  value |-> JNull, error |-> error]

\* findJson(contentToSearch).  foundJson.hasOwnProperty('unparsed') is a
\* TypeError on null and on an object whose own `hasOwnProperty` member is
\* not a function; on a number or a string it is false.
FoundOrNull(foundJson) ==
  IF foundJson.t = "null" THEN Threw("TypeError")
  ELSE IF foundJson.t = "obj" /\ HasOwnPropertyKey \in OwnKeys(foundJson)
    THEN Threw("TypeError")
  ELSE IF foundJson.t = "obj" /\ Unparsed \in OwnKeys(foundJson)
    THEN Returned(JNull)
  ELSE Returned(foundJson)

possibleJson(contentToSearch) ==
  Substring(contentToSearch,
            IndexOf(contentToSearch, "{"),
            LastIndexOf(contentToSearch, "}") + 1)

findJson(contentToSearch) ==
  FoundOrNull(safeParse(possibleJson(contentToSearch)))

\* stripAnsi(ioBuffer): removes the escape sequences  ESC [ digits m.
RECURSIVE AnsiEnd(_, _)
AnsiEnd(s, i) ==
  IF i > Len(s) THEN 0
  ELSE IF IsDigit(s[i]) \/ s[i] = ";" THEN AnsiEnd(s, i + 1)
  ELSE IF s[i] = "m" THEN i
  ELSE 0

RECURSIVE stripAnsi(_)
stripAnsi(s) ==
  IF s = << >> THEN << >>
  ELSE IF Head(s) = Esc /\ Len(s) >= 2 /\ s[2] = "[" /\ AnsiEnd(s, 3) > 0
    THEN stripAnsi(SubSeq(s, AnsiEnd(s, 3) + 1, Len(s)))
    ELSE <<Head(s)>> \o stripAnsi(Tail(s))

\* stdioToJson(ioBuffer)
stdioToJson(ioBuffer) == findJson(stripAnsi(ioBuffer))

\* JSON.stringify of a value, as the CLI writes a payload to its output.
RECURSIVE NumChars(_)
NumChars(n) ==
  LET d == <<"0", "1", "2", "3", "4", "5", "6", "7", "8", "9">>[(n % 10) + 1]
  IN  IF n < 10 THEN <<d>> ELSE NumChars(n \div 10) \o <<d>>

RECURSIVE Stringify(_)
RECURSIVE StringifyMembers(_)

Stringify(v) ==
  CASE v.t = "null" -> <<"n", "u", "l", "l">>
    [] v.t = "num"  -> NumChars(v.n)
    [] v.t = "str"  -> <<"\"">> \o v.s \o <<"\"">>
    [] OTHER        -> <<"{">> \o StringifyMembers(v.m) \o <<"}">>

StringifyMembers(m) ==
  IF m = << >> THEN << >>
  ELSE <<"\"">> \o Head(m).k \o <<"\"", ":">> \o Stringify(Head(m).v)
         \o (IF Len(m) > 1 THEN <<",">> \o StringifyMembers(Tail(m))
                           ELSE << >>)

\* lodash isEmpty(value): a string or an array is empty when it has length
\* 0, an object when it has no own enumerable keys, and every other value
\* (a number, a boolean, null, undefined) is empty.
IsEmptyValue(v) ==
  CASE v.t = "str" -> v.s = << >>
    [] v.t = "obj" -> v.m = << >>
    [] OTHER       -> TRUE

\* ------------------------------------------------------- the task function
\* What zx hands back for the command of task i.
ProcessResult(i) ==
  [class |-> "ProcessOutput", task |-> i, exitCode |-> 0]
ProcessError(i) ==
  [class |-> "ProcessOutput", task |-> i, exitCode |-> 1]
\* What a hook of task i throws, when it throws.
HookError(i) ==
  [class |-> "Error", task |-> i, exitCode |-> 0]
\* The TypeError of stdioToJson in the task function of task i.
ConversionError(i) ==
  [class |-> "TypeError", task |-> i, exitCode |-> 0]

\* What the commands write.  `call` describes it when the output of the
\* commands is under study; otherwise they write nothing.
ProcessStdio ==
  IF call.fn = "stdio" THEN [stderr |-> call.stderr, stdout |-> call.stdout]
                       ELSE [stderr |-> << >>, stdout |-> << >>]

\* processError.stderr and processError.stdout: the buffers of what zx
\* threw, and undefined on anything else the try block threw.
StderrOf(e) ==
  IF e.class = "ProcessOutput" THEN Some(ProcessStdio.stderr) ELSE Undefined
StdoutOf(e) ==
  IF e.class = "ProcessOutput" THEN Some(ProcessStdio.stdout) ELSE Undefined

\* What the task function does, in the order it does it.
Event(name) == [ev |-> name, shown |-> << >>]
Log(r, event) == [r EXCEPT !.trace = Append(@, event)]

\* The context object Listr passes to every task: the ctx of the options
\* it was constructed with.
ListrCtx == options.ctx

\* await sfdxTask.onSuccess(...) / await sfdxTask.onError(...): the call.
Invoke(r, hook, arg, i) ==
  [Log(r, Event(hook))
     EXCEPT !.status = hook,
            !.calls  = Append(@, [hook |-> hook, arg |-> arg,
                                  ctx |-> ListrCtx, task |-> i])]

Fulfil(r)    == [Log(r, Event("return")) EXCEPT !.status = "done"]
Reject(r, e) == [Log(r, Event("throw")) EXCEPT !.status = "failed",
                                               !.thrown = Some(e)]

CommandFailedError(e) ==
  SfdxFalconError("Salesforce CLI command execution failed.",
                  Some("SFDX CLI Command Failed"),
                  Some("TaskRunner:SfdxTask:buildListrTask"),
                  Some(e), Undefined, Undefined)

\* Mutants: a task function that never rethrows, and one that always does.
ThrowsToListr_Never(t)  == FALSE
ThrowsToListr_Always(t) == TRUE

\* if (sfdxTask.suppressErrors === false) { ... throw new SfdxFalconError }
ThrowsToListr(t) == t.suppressErrors = FALSE

\* processError.stderrJson = stdioToJson(processError.stderr): stripAnsi
\* and substring throw a TypeError on a buffer that is not a string, and
\* findJson throws on some that are.
ConversionThrows(buffer) ==
  ~IsDefined(buffer) \/ stdioToJson(Val(buffer)).threw

\* if (isEmpty(json)) debugString(..., buffer) else debugObject(..., json)
RenderedBuffer(buffer) ==
  LET json == stdioToJson(buffer).value
  IN  IF IsEmptyValue(json)
        THEN [as |-> "string", text |-> buffer, json |-> JNull]
        ELSE [as |-> "object", text |-> << >>, json |-> json]

\* The three debugString/debugObject calls that follow the headline.
Diagnostics(t, e) ==
  [ev |-> "render",
   shown |-> << [command |-> t.commandString,
                 stderr  |-> RenderedBuffer(Val(StderrOf(e))),
                 stdout  |-> RenderedBuffer(Val(StdoutOf(e)))] >>]

\* if (sfdxTask.renderStdioOnError === true)
RendersStdio(t) == t.renderStdioOnError = TRUE

\* The catch block past the onError hook.
AfterOnError(t, r, e) ==
  IF ~ThrowsToListr(t) THEN Fulfil(r)
  ELSE IF ConversionThrows(StderrOf(e)) \/ ConversionThrows(StdoutOf(e))
    THEN Reject(r, ConversionError(e.task))
  ELSE Reject(IF RendersStdio(t) THEN Log(r, Diagnostics(t, e)) ELSE r,
              CommandFailedError(e))

\* Mutant: the onError hook is called only when the error will be rethrown.
CallsOnError_UnlessSuppressed(t) == t.onError /\ ~t.suppressErrors

\* if (typeof sfdxTask.onError === 'function')
CallsOnError(t) == t.onError

\* catch (processError) { ... }: entered with whatever the try block threw.
Catch(t, r, e, i) ==
  IF CallsOnError(t)
    THEN Invoke([r EXCEPT !.caught = Some(e)], "onError", e, i)
    ELSE AfterOnError(t, [r EXCEPT !.caught = Some(e)], e)

\* The try block once the command has succeeded: the two stdioToJson
\* calls, then the onSuccess hook.
AfterCommand(t, r, i) ==
  IF ConversionThrows(StderrOf(ProcessResult(i)))
       \/ ConversionThrows(StdoutOf(ProcessResult(i)))
    THEN Catch(t, r, ConversionError(i), i)
  ELSE IF t.onSuccess THEN Invoke(r, "onSuccess", ProcessResult(i), i)
  ELSE Fulfil(r)

\* ------------------------------------------------------------- the batch
Settled(r) == r.status \in {"done", "failed"}
Started(r) == r.status # "pending"

\* runTasks(): catch (runError) { throw new SfdxFalconError(..., runError) }
RuntimeError(runError) ==
  SfdxFalconError("Error thrown at runtime by a Listr task.",
                  Some("TaskRunner Runtime Error"),
                  Some("TaskRunner:runTasks"),
                  Some(runError), Undefined, Undefined)

\* Task i moves to r2: its hooks write into the context they were given,
\* and a rejected task ends the batch when Listr exits on error.
TaskMoves(i, r2) ==
  /\ rt' = [rt EXCEPT ![i] = r2]
  /\ heap' = IF Len(r2.calls) > Len(rt[i].calls)
               THEN [heap EXCEPT ![ListrCtx].written = @ \cup {i}]
               ELSE heap
  /\ run' = IF r2.status = "failed" /\ options.exitOnError
                                    /\ run.state = "running"
              THEN [state |-> "rejected", value |-> Null,
                    error |-> Some(RuntimeError(Val(r2.thrown)))]
              ELSE run
  /\ lastCall' = NoCall
  /\ UNCHANGED << trInstance, constructed, ctx, options,
                  tasks, isRunning, errIn, errOut, libVars >>

\* tr.runTasks(): Listr starts to run the batch.
RunTasks ==
  /\ trInstance # Null
  /\ run.state = "idle"
  /\ run' = [run EXCEPT !.state = "running"]
  /\ lastCall' = NoCall
  /\ UNCHANGED << trInstance, constructed, ctx, options,
                  heap, tasks, rt, isRunning, errIn, errOut, libVars >>

\* Mutant: Listr starting the tasks of every list side by side.
MayStart_Eager(i) ==
  /\ rt[i].status = "pending"
  /\ \A j \in 1..(i - 1) : Started(rt[j])

\* Listr may start task i: in list order, and one at a time unless the
\* runner's options say concurrent.  The task's own `concurrent` property is
\* not an option of the list and plays no part.
MayStart(i) ==
  /\ rt[i].status = "pending"
  /\ \A j \in 1..(i - 1) : Started(rt[j])
  /\ options.concurrent \/ \A j \in 1..(i - 1) : Settled(rt[j])

\* The task function of task i is called: $`${sfdxTask.commandString}`
Spawn(i) ==
  /\ run.state = "running"
  /\ MayStart(i)
  /\ TaskMoves(i, [rt[i] EXCEPT !.status = "running"])

\* The command of task i exits.
CommandExit(i, ok) ==
  /\ rt[i].status = "running"
  /\ LET r == [rt[i] EXCEPT !.proc = IF ok THEN "ok" ELSE "fail"]
     IN  TaskMoves(i, IF ok THEN AfterCommand(tasks[i], r, i)
                            ELSE Catch(tasks[i], r, ProcessError(i), i))

\* The hook that task i awaits returns, or throws.
HookDone(i, throws) ==
  /\ rt[i].status \in {"onSuccess", "onError"}
  /\ LET t == tasks[i]
         r == Log(rt[i], Event(IF throws THEN "hookThrew" ELSE "hookReturned"))
     IN  TaskMoves(i,
           CASE r.status = "onSuccess" /\ ~throws -> Fulfil(r)
             [] r.status = "onSuccess" /\ throws  -> Catch(t, r, HookError(i), i)
             [] r.status = "onError"   /\ ~throws -> AfterOnError(t, r, Val(r.caught))
             [] r.status = "onError"   /\ throws  -> Reject(r, HookError(i)))

\* Every task has settled: this.tasks.run() resolves to Listr's context.
Finish ==
  /\ run.state = "running"
  /\ \A i \in 1..Len(rt) : Settled(rt[i])
  /\ run' = [state |-> "resolved", value |-> ListrCtx, error |-> Undefined]
  /\ lastCall' = NoCall
  /\ UNCHANGED << trInstance, constructed, ctx, options,
                  heap, tasks, rt, isRunning, errIn, errOut, libVars >>

\* The runner is obtained, and further constructions are attempted, at any
\* time before the batch is run.
Next ==
  \/ run.state = "idle" /\ GetInstance
  \/ run.state = "idle" /\ \E o \in RunnerOptionInputs : NewTaskRunner(o)
  \/ SetCtx
  \/ \E in \in TaskInputs : AddTask(in)
  \/ RunTasks
  \/ \E i \in 1..Len(tasks) : Spawn(i)
  \/ \E i \in 1..Len(tasks), ok \in BOOLEAN : CommandExit(i, ok)
  \/ \E i \in 1..Len(tasks), throws \in BOOLEAN : HookDone(i, throws)
  \/ Finish

Spec == Init /\ [][Next]_vars

\* ------------------------------------- stand-alone error construction
ErrInputs ==
  [ message  : {"boom", "bang"},
    name     : {Undefined, Some("MyError")},
    source   : {Undefined, Some("My:Source")},
    cause    : {Undefined, Some(ProcessError(1)),
                Some(NativeError("inner", StringArg("")))},
    actions  : {Undefined, Some(<< >>), Some(<<"retry">>)},
    exitCode : {Undefined, Some(3)} ]

InitErr ==
  /\ InitRunner
  /\ errIn \in ErrInputs
  /\ errOut = Undefined
  /\ InitLib

\* new SfdxFalconError(message, name, source, cause, actions, exitCode)
ConstructError ==
  /\ errOut = Undefined
  /\ errOut' = Some(SfdxFalconError(errIn.message, errIn.name, errIn.source,
                                    errIn.cause, errIn.actions, errIn.exitCode))
  /\ UNCHANGED << runnerVars, errIn, libVars >>

NextErr == ConstructError

SpecErr == InitErr /\ [][NextErr]_vars

\* ------------------------------------------- stand-alone stdioToJson calls
MaxBufLen == 3   \* length of the buffers enumerated over BufferAlphabet

BufferAlphabet == {"{", "}", "1", "a"}

RECURSIVE StringsUpTo(_, _)
StringsUpTo(alphabet, n) ==
  IF n = 0 THEN { << >> }
  ELSE LET shorter == StringsUpTo(alphabet, n - 1)
       IN  shorter \cup { Append(s, c) : s \in shorter, c \in alphabet }

Key(c) == <<c>>

\* Payloads a CLI may print, each a JSON object.
JsonInputs ==
  { JObj(<< >>),
    JObj(<< [k |-> Key("a"), v |-> JNum(1)] >>),
    JObj(<< [k |-> Key("a"), v |-> JObj(<< [k |-> Key("b"), v |-> JNum(15)] >>)],
            [k |-> Key("c"), v |-> JNull] >>),
    JObj(<< [k |-> Key("a"), v |-> JStr(<<"}", " ", "{">>)] >>),
    JObj(<< [k |-> Unparsed, v |-> JNum(1)] >>),
    JObj(<< [k |-> HasOwnPropertyKey, v |-> JNum(1)] >>) }

\* Brace-free prose, some of it coloured with escape sequences.
ProseInputs ==
  { << >>,
    <<"a", " ">>,
    <<Esc, "[", "3", "1", "m", "a", Esc, "[", "0", "m", "\n">>,
    <<"1", " ", Esc, "[", "m">> }

\* Buffers that were not built around a payload.
RawBuffers ==
  StringsUpTo(BufferAlphabet, MaxBufLen)
    \cup { <<"n", "u", "l", "l", "{">>,
           <<"}", " ", "1", "5", " ", "{">>,
           <<"{", "\"", "a", "\"", ":", "}">>,
           <<"{", "\"", "a", "\"", ":", "1", ",", "}">>,
           <<"a", "{", "\"", "a", "\"", ":", "1", "}">>,
           <<Esc, "[", "1", "m", "{", "}", "}">> }

JsonCalls ==
  { [fn |-> "stdioToJson", ioBuffer |-> b, payload |-> Undefined] :
      b \in RawBuffers }
  \cup
  { [fn |-> "stdioToJson", ioBuffer |-> p \o Stringify(j) \o q,
     payload |-> Some(j)] :
      p \in ProseInputs, j \in JsonInputs, q \in ProseInputs }

InitJson ==
  /\ InitRunner
  /\ errIn = NoErrIn
  /\ errOut = Undefined
  /\ call \in JsonCalls
  /\ outcome = Undefined
  /\ InitDebug

StdioToJson ==
  /\ call.fn = "stdioToJson"
  /\ outcome = Undefined
  /\ outcome' = Some(stdioToJson(call.ioBuffer))
  /\ UNCHANGED << runnerVars, errIn, errOut, call,
                  enabledDebugNamespaces, debugAll, debugOut >>

NextJson == StdioToJson

SpecJson == InitJson /\ [][NextJson]_vars

\* ------------------------------------------------------------ SfdxFalconDebug
\* The Map enabledDebugNamespaces is the record of the keys set to true (t)
\* and the keys set to false (f).
RECURSIVE SplitFrom(_, _, _)
SplitFrom(s, sep, group) ==
  IF s = << >> THEN << group >>
  ELSE IF Head(s) = sep THEN << group >> \o SplitFrom(Tail(s), sep, << >>)
  ELSE SplitFrom(Tail(s), sep, Append(group, Head(s)))

\* String.prototype.split(sep)
Split(s, sep) == SplitFrom(s, sep, << >>)

EmptyMap == [t |-> {}, f |-> {}]

MapSet(map, key, value) ==
  IF value THEN [t |-> map.t \cup {key}, f |-> map.f \ {key}]
           ELSE [t |-> map.t \ {key}, f |-> map.f \cup {key}]

\* enabledDebugNamespaces.get(key), in a condition
MapGet_Has(key) == key \in enabledDebugNamespaces.t \cup enabledDebugNamespaces.f
MapGet(key) == key \in enabledDebugNamespaces.t

\* The loop of checkEnabled over the groups left, namespaceToTest being the
\* text built so far.
RECURSIVE CheckGroups(_, _)
CheckGroups(namespaceGroups, namespaceToTest) ==
  IF namespaceGroups = << >> THEN FALSE
  ELSE LET toTest == namespaceToTest \o Head(namespaceGroups)
       IN  IF MapGet(toTest) THEN TRUE
           ELSE CheckGroups(Tail(namespaceGroups), toTest \o <<":">>)

\* SfdxFalconDebug.checkEnabled(namespace)
checkEnabled(namespace) == CheckGroups(Split(namespace, ":"), << >>)

RECURSIVE SetAll(_, _, _)
SetAll(map, namespaces, value) ==
  IF namespaces = << >> THEN map
  ELSE SetAll(MapSet(map, Head(namespaces), value), Tail(namespaces), value)

TrimAll(items) == [k \in 1..Len(items) |-> Trim(items[k])]

\* The value of argv['sfdx-falcon-debug'].
NoFlag        == [t |-> "undefined", b |-> FALSE, s |-> << >>]
BoolFlag(b)   == [t |-> "boolean",   b |-> b,     s |-> << >>]
StringFlag(s) == [t |-> "string",    b |-> FALSE, s |-> s]

FlagTruthy(flag) ==
  \/ flag.t = "boolean" /\ flag.b
  \/ flag.t = "string" /\ flag.s # << >>

nsA   == <<"A">>
nsAB  == <<"A", ":", "B">>
nsABC == <<"A", ":", "B", ":", "C">>
nsAb  == <<"A", "B">>
nsPad == <<" ", "A">>

NamespaceInputs == { nsA, nsAB, nsABC, nsAb, nsPad }

\* Namespaces that code under debug passes to checkEnabled, msg, obj, str.
CheckInputs ==
  { nsA, nsAB, nsABC, nsAb, <<"A", ":">>, <<":", "A">>, <<"B", ":", "A">> }

FlagInputs ==
  { NoFlag, BoolFlag(TRUE), BoolFlag(FALSE), StringFlag(<< >>),
    StringFlag(nsAB), StringFlag(<<"A", ",", " ", "A", "B">>),
    StringFlag(<<"A", ":", "B", ":", "C", ",">>) }

InitDbg ==
  /\ InitRunner
  /\ errIn = NoErrIn
  /\ errOut = Undefined
  /\ call = NoLibCall
  /\ outcome = Undefined
  /\ enabledDebugNamespaces = EmptyMap
  /\ debugAll = FALSE
  /\ debugOut = Undefined

DebugCall(fn, arg) == [fn |-> fn, arg |-> arg]

\* SfdxFalconDebug.enableDebuggers(namespaces)
EnableDebuggers(namespaces) ==
  /\ call' = DebugCall("enableDebuggers", namespaces)
  /\ enabledDebugNamespaces' =
       SetAll(enabledDebugNamespaces, TrimAll(namespaces), TRUE)
  /\ debugOut' = Undefined
  /\ UNCHANGED << runnerVars, errIn, errOut, outcome, debugAll >>

\* SfdxFalconDebug.disableDebuggers(namespaces)
DisableDebuggers(namespaces) ==
  /\ call' = DebugCall("disableDebuggers", namespaces)
  /\ enabledDebugNamespaces' = SetAll(enabledDebugNamespaces, namespaces, FALSE)
  /\ debugOut' = Undefined
  /\ UNCHANGED << runnerVars, errIn, errOut, outcome, debugAll >>

\* SfdxFalconDebug.init(argv): the namespaces of a string flag are trimmed
\* here and again by enableDebuggers.
DebugInit(flag) ==
  /\ call' = [fn |-> "init", arg |-> flag]
  /\ debugOut' = Undefined
  /\ IF FlagTruthy(flag) /\ flag.t = "string"
       THEN /\ enabledDebugNamespaces' =
                 SetAll(enabledDebugNamespaces,
                        TrimAll(TrimAll(Split(flag.s, ","))), TRUE)
            /\ UNCHANGED debugAll
       ELSE /\ debugAll' = (debugAll \/ (FlagTruthy(flag) /\ flag.t = "boolean"))
            /\ UNCHANGED enabledDebugNamespaces
  /\ UNCHANGED << runnerVars, errIn, errOut, outcome >>

\* getDebugger(namespace): the debugger of the namespace, created enabled.
getDebugger(namespace) == [namespace |-> namespace, enabled |-> TRUE]

\* debugMessage / debugObject / debugString: what the debugger writes.
DebugWrite(namespace) ==
  IF getDebugger(namespace).enabled THEN <<namespace>> ELSE << >>

\* The condition of msg, obj and str.
OutputEnabled_Always(namespace) == TRUE
OutputEnabled(namespace) == checkEnabled(namespace) \/ debugAll = TRUE

\* SfdxFalconDebug.msg / obj / str (namespace, ...)
DebugOutput(fn, namespace) ==
  /\ call' = DebugCall(fn, namespace)
  /\ debugOut' = Some(IF OutputEnabled(namespace) THEN DebugWrite(namespace)
                                                  ELSE << >>)
  /\ UNCHANGED << runnerVars, errIn, errOut, outcome,
                  enabledDebugNamespaces, debugAll >>

NextDbg ==
  \/ \E flag \in FlagInputs : DebugInit(flag)
  \/ \E n \in NamespaceInputs : EnableDebuggers(<<n>>)
  \/ \E n \in NamespaceInputs : DisableDebuggers(<<n>>)
  \/ \E n \in CheckInputs : DebugOutput("msg", n)
  \/ \E n \in CheckInputs : DebugOutput("obj", n)
  \/ \E n \in CheckInputs : DebugOutput("str", n)

SpecDbg == InitDbg /\ [][NextDbg]_vars

\* ------------------------------------------------- validators/type-validator
\* A JavaScript value as the validators see it: its typeof, whether it is
\* null or an array, whether it has a Symbol.iterator method, how many
\* elements, characters or own keys it has, the name of its constructor, the
\* classes it is an instance of, its text (a string), its truth (a boolean)
\* and, for a path, whether the file system lets the process read it.
BaseVal ==
  [ typeof |-> "undefined", isNull |-> FALSE, isArray |-> FALSE,
    iterable |-> FALSE, size |-> 0, ctor |-> "", classes |-> {},
    str |-> "", bool |-> FALSE, readable |-> FALSE ]

UndefinedValue == BaseVal
NullValue      == [BaseVal EXCEPT !.typeof = "object", !.isNull = TRUE]
BoolValue(b)   == [BaseVal EXCEPT !.typeof = "boolean", !.bool = b,
                                  !.ctor = "Boolean"]
NumberValue    == [BaseVal EXCEPT !.typeof = "number", !.ctor = "Number"]
StringValue(s, n) ==
  [BaseVal EXCEPT !.typeof = "string", !.str = s, !.size = n,
                  !.iterable = TRUE, !.ctor = "String"]
PathValue(s, n, r) == [StringValue(s, n) EXCEPT !.readable = r]
FunctionValue  == [BaseVal EXCEPT !.typeof = "function", !.ctor = "Function",
                                  !.classes = {"Function", "Object"}]
ArrayValue(n)  == [BaseVal EXCEPT !.typeof = "object", !.isArray = TRUE,
                                  !.iterable = TRUE, !.size = n,
                                  !.ctor = "Array",
                                  !.classes = {"Array", "Object"}]
ObjectValue(n) == [BaseVal EXCEPT !.typeof = "object", !.size = n,
                                  !.ctor = "Object", !.classes = {"Object"}]
MapValue(n)    == [BaseVal EXCEPT !.typeof = "object", !.iterable = TRUE,
                                  !.size = n, !.ctor = "Map",
                                  !.classes = {"Map", "Object"}]
ErrorValue     == [BaseVal EXCEPT !.typeof = "object", !.ctor = "Error",
                                  !.classes = {"Error", "Object"}]
FalconErrorValue ==
  [BaseVal EXCEPT !.typeof = "object", !.size = 2, !.ctor = "SfdxFalconError",
                  !.classes = {"SfdxFalconError", "Error", "Object"}]

\* lodash isEmpty(variable)
isEmpty(variable) == variable.size = 0

\* Array.isArray(variable)
IsArray(variable) == variable.isArray

\* variable instanceof classConstructor
InstanceOf(variable, classConstructor) == classConstructor \in variable.classes

\* excludeArray === true
IsTrue(v) == v.typeof = "boolean" /\ v.bool

\* A parameter with the default value false.
DefaultFalse(v) == IF v.typeof = "undefined" THEN BoolValue(FALSE) ELSE v

isInvalidObject(variable, excludeArray) ==
  IF IsTrue(DefaultFalse(excludeArray)) /\ IsArray(variable) = TRUE
    THEN TRUE
    ELSE variable.typeof # "object"

isNullInvalidObject(variable, excludeArray) ==
  isInvalidObject(variable, DefaultFalse(excludeArray)) \/ variable.isNull

isEmptyNullInvalidObject(variable, excludeArray) ==
  \/ isInvalidObject(variable, DefaultFalse(excludeArray))
  \/ variable.isNull
  \/ isEmpty(variable)

isInvalidIterator(variable) ==
  IF isNullInvalidObject(variable, UndefinedValue) THEN TRUE
  ELSE ~variable.iterable

isNullInvalidIterator(variable) == isInvalidIterator(variable)

isEmptyNullInvalidIterator(variable) ==
  IF isInvalidIterator(variable) THEN TRUE
  ELSE IF variable.size > 0 THEN FALSE
  ELSE TRUE

isNullInvalidObjectIterator(variable) ==
  IF isNullInvalidObject(variable, BoolValue(TRUE)) THEN TRUE
  ELSE isInvalidIterator(variable)

isInvalidObjectIterator(variable) ==
  IF isNullInvalidObject(variable, BoolValue(TRUE)) THEN TRUE
  ELSE isInvalidIterator(variable)

isEmptyNullInvalidObjectIterator(variable) ==
  IF isNullInvalidObjectIterator(variable) THEN TRUE
  ELSE IF variable.size > 0 THEN FALSE
  ELSE TRUE

isEmptyNullInvalidArray(variable) ==
  IsArray(variable) # TRUE \/ variable.isNull \/ variable.size < 1

isInvalidArray(variable) == IsArray(variable) # TRUE

isNullInvalidArray(variable) == IsArray(variable) # TRUE \/ variable.isNull

isEmptyNullInvalidString(variable) ==
  variable.typeof # "string" \/ variable.isNull \/ variable.str = ""

isInvalidString(variable) == variable.typeof # "string"

isNullInvalidString(variable) ==
  variable.typeof # "string" \/ variable.isNull

isInvalidBoolean(variable) == variable.typeof # "boolean"

isNullInvalidBoolean(variable) ==
  variable.typeof # "boolean" \/ variable.isNull

isInvalidFunction(variable) == variable.typeof # "function"

isInvalidInstance(variable, classConstructor) ==
  variable.typeof # "object" \/ InstanceOf(variable, classConstructor) # TRUE

isNullInvalidInstance(variable, classConstructor) ==
  \/ variable.typeof # "object"
  \/ variable.isNull
  \/ InstanceOf(variable, classConstructor) # TRUE

isNullUndefined(variable) ==
  variable.typeof = "undefined" \/ variable.isNull

\* fs.accessSync(path, R_OK) returns for a readable path and throws
\* otherwise.
isReadablePath(path) == path.typeof = "string" /\ path.readable

isNotReadablePath(path) == ~isReadablePath(path)

\* getArgumentName(argName)
getArgumentName(argName) ==
  IF isEmptyNullInvalidString(argName) THEN "the argument" ELSE argName.str

\* getObjectNameOrPrimitiveType(variable), without its leading blank
getObjectNameOrPrimitiveType(variable) ==
  IF variable.typeof = "object" /\ ~variable.isNull THEN variable.ctor
                                                    ELSE variable.typeof

\* getNullOrEmpty(variable)
getNullOrEmpty(variable) ==
  IF variable.isNull THEN " a NULL"
  ELSE IF variable.typeof \in {"object", "string", "symbol"}
          /\ isEmpty(variable) THEN " an empty"
  ELSE ""

\* getInvalidIterator(variable)
getInvalidIterator(variable) ==
  IF isInvalidIterator(variable)
    THEN " that does not implement the iterable protocol"
    ELSE ""

\* The name of the constructor of arg, '' for undefined and null.
ActualInstanceOf(arg) ==
  IF arg.typeof # "undefined" /\ ~arg.isNull THEN arg.ctor ELSE ""

\* The validators, by the part of their name after is / throwOn.
ObjectValidators ==
  { "EmptyNullInvalidObject", "InvalidObject", "NullInvalidObject" }

InstanceValidators == { "InvalidInstance", "NullInvalidInstance" }

PlainValidators ==
  { "EmptyNullInvalidArray", "EmptyNullInvalidIterator",
    "EmptyNullInvalidObjectIterator", "EmptyNullInvalidString",
    "InvalidArray", "InvalidBoolean", "InvalidFunction", "InvalidIterator",
    "InvalidObjectIterator", "InvalidString", "NullInvalidArray",
    "NullInvalidBoolean", "NullInvalidIterator", "NullInvalidObjectIterator",
    "NullInvalidString", "NullUndefined", "NonReadablePath" }

Validators == PlainValidators \cup ObjectValidators \cup InstanceValidators

\* isXxx(variable), isXxx(variable, excludeArray),
\* isXxx(variable, classConstructor)
IsXxx(fn, variable, classConstructor, excludeArray) ==
  CASE fn = "EmptyNullInvalidArray"  -> isEmptyNullInvalidArray(variable)
    [] fn = "EmptyNullInvalidIterator" -> isEmptyNullInvalidIterator(variable)
    [] fn = "EmptyNullInvalidObject" ->
         isEmptyNullInvalidObject(variable, excludeArray)
    [] fn = "EmptyNullInvalidObjectIterator" ->
         isEmptyNullInvalidObjectIterator(variable)
    [] fn = "EmptyNullInvalidString" -> isEmptyNullInvalidString(variable)
    [] fn = "InvalidArray"           -> isInvalidArray(variable)
    [] fn = "InvalidBoolean"         -> isInvalidBoolean(variable)
    [] fn = "InvalidFunction"        -> isInvalidFunction(variable)
    [] fn = "InvalidInstance" -> isInvalidInstance(variable, classConstructor)
    [] fn = "InvalidIterator"        -> isInvalidIterator(variable)
    [] fn = "InvalidObject"          -> isInvalidObject(variable, excludeArray)
    [] fn = "InvalidObjectIterator"  -> isInvalidObjectIterator(variable)
    [] fn = "InvalidString"          -> isInvalidString(variable)
    [] fn = "NullInvalidArray"       -> isNullInvalidArray(variable)
    [] fn = "NullInvalidBoolean"     -> isNullInvalidBoolean(variable)
    [] fn = "NullInvalidInstance" ->
         isNullInvalidInstance(variable, classConstructor)
    [] fn = "NullInvalidIterator"    -> isNullInvalidIterator(variable)
    [] fn = "NullInvalidObject" -> isNullInvalidObject(variable, excludeArray)
    [] fn = "NullInvalidObjectIterator" ->
         isNullInvalidObjectIterator(variable)
    [] fn = "NullInvalidString"      -> isNullInvalidString(variable)
    [] fn = "NullUndefined"          -> isNullUndefined(variable)
    [] OTHER                         -> isNotReadablePath(variable)

\* The text between "Expected <argument>" and "but got" of each message.
ExpectedShape(fn, excludeArray) ==
  CASE fn = "EmptyNullInvalidArray"  -> " to be a non-null, non-empty array"
    [] fn = "EmptyNullInvalidIterator" ->
         " to be a non-null, non-empty iterable type"
    [] fn = "EmptyNullInvalidObject" ->
         IF IsTrue(excludeArray)
           THEN " to be a non-null, non-empty, non-array object"
           ELSE " to be a non-null, non-empty object"
    [] fn = "EmptyNullInvalidObjectIterator" ->
         " to be a non-null, non-empty iterable object"
    [] fn = "EmptyNullInvalidString" -> " to be a non-null, non-empty string"
    [] fn = "InvalidArray"           -> " to be an array"
    [] fn = "InvalidBoolean"         -> " to be a boolean"
    [] fn = "InvalidFunction"        -> " to be a function"
    [] fn = "InvalidIterator"        -> " to be an iterable type"
    [] fn = "InvalidObject" ->
         IF IsTrue(excludeArray) THEN " to be a non-array object"
                                 ELSE " to be an object"
    [] fn = "InvalidObjectIterator"  -> " to be an iterable object"
    [] fn = "InvalidString"          -> " to be a string"
    [] fn = "NullInvalidArray"       -> " to be a non-null array"
    [] fn = "NullInvalidBoolean"     -> " to be a non-null boolean"
    [] fn = "NullInvalidIterator" ->
         " to be a non-null type that implements an iterator"
    [] fn = "NullInvalidObjectIterator" -> " to be a non-null, iterable object"
    [] fn = "NullInvalidString"      -> " to be a non-null string"
    [] OTHER                         -> " to be a non-null, defined type"

PartsWithNullOrEmpty ==
  Validators \ { "InvalidArray", "InvalidBoolean", "InvalidIterator",
                 "InvalidObject", "InvalidObjectIterator", "InvalidString" }

PartsWithIterator ==
  { "EmptyNullInvalidIterator", "EmptyNullInvalidObjectIterator",
    "InvalidIterator", "InvalidObjectIterator", "NullInvalidIterator",
    "NullInvalidObjectIterator" }

MsgReturned(parts) == [threw |-> FALSE, parts |-> parts, error |-> ""]
MsgThrew(error)    == [threw |-> TRUE,  parts |-> << >>, error |-> error]

\* errMsgXxx(arg, argName), errMsgXxx(arg, argName, excludeArray),
\* errMsgXxx(arg, classConstructor, argName): the message as the list of
\* its parts.  errMsgNullInvalidObject reads excludeArray, which is neither
\* a parameter nor a variable of its module.  In errMsgInvalidInstance the
\* operator + binds tighter than ?:, so the text before the ? is only the
\* condition, and it is never empty.
errMsg(fn, arg, argName, classConstructor, excludeArray) ==
  CASE fn = "NullInvalidObject" -> MsgThrew("ReferenceError")
    [] fn = "InvalidInstance" ->
         MsgReturned(<< " but got an instance of ", ActualInstanceOf(arg),
                        " instead" >>)
    [] fn = "NullInvalidInstance" ->
         MsgReturned(
           << "Expected ", getArgumentName(argName),
              " to be a non-null instance of ", classConstructor >>
           \o (IF ActualInstanceOf(arg) # ""
                 THEN << " but got an instance of ", ActualInstanceOf(arg),
                         " instead" >>
                 ELSE << >>)
           \o << "." >>)
    [] fn = "NonReadablePath" ->
         MsgReturned(<< "Expected ", getArgumentName(argName),
                        " to reference a readable path, but ", arg.str,
                        " does not exist or is not accessible" >>)
    [] OTHER ->
         MsgReturned(
           << "Expected ", getArgumentName(argName),
              ExpectedShape(fn, excludeArray), " but got" >>
           \o (IF fn \in PartsWithNullOrEmpty THEN << getNullOrEmpty(arg) >>
                                              ELSE << >>)
           \o << getObjectNameOrPrimitiveType(arg) >>
           \o (IF fn \in PartsWithIterator THEN << getInvalidIterator(arg) >>
                                           ELSE << >>)
           \o << " instead." >>)

\* if (typeof argName !== 'string') argName = '';
NormalArgName(argName) ==
  IF argName.typeof # "string" THEN StringValue("", 0) ELSE argName

\* if (typeof excludeArray !== 'boolean') excludeArray = false;
NormalExcludeArray_True(excludeArray) == BoolValue(TRUE)
NormalExcludeArray(excludeArray) ==
  IF DefaultFalse(excludeArray).typeof # "boolean" THEN BoolValue(FALSE)
                                                    ELSE DefaultFalse(excludeArray)

\* `${dbgNsExt}`
TemplateOf(o) == IF IsDefined(o) THEN Val(o) ELSE "undefined"

ValidatorReturned == [threw |-> FALSE, error |-> [class |-> "none"]]
ValidatorThrew(e) == [threw |-> TRUE,  error |-> e]

\* throwOnXxx(arg, dbgNsExt, argName), throwOnXxx(arg, dbgNsExt, argName,
\* excludeArray), throwOnXxx(arg, classConstructor, dbgNsExt, argName)
throwOnXxx(fn, arg, classConstructor, dbgNsExt, argName, excludeArray) ==
  LET name    == IF fn \in ObjectValidators THEN NormalArgName(argName)
                                            ELSE argName
      exclude == IF fn \in ObjectValidators
                   THEN NormalExcludeArray(excludeArray)
                   ELSE excludeArray
      msg     == errMsg(fn, arg, name, classConstructor, exclude)
  IN  IF IsXxx(fn, arg, classConstructor, exclude)
        THEN IF msg.threw
               THEN ValidatorThrew([class |-> msg.error])
               ELSE ValidatorThrew(
                      SfdxFalconError(msg.parts,
                        Some(IF fn = "NonReadablePath" THEN "PathError"
                                                       ELSE "TypeError"),
                        Some(TemplateOf(dbgNsExt)),
                        Undefined, Undefined, Undefined))
        ELSE ValidatorReturned

\* ---------------------------------------------- stand-alone validator calls
ArgInputs ==
  { UndefinedValue, NullValue, BoolValue(TRUE), NumberValue,
    StringValue("", 0), PathValue("/work/sfdx-project.json", 23, TRUE),
    PathValue("/missing", 8, FALSE), FunctionValue,
    ArrayValue(0), ArrayValue(2), ObjectValue(0), ObjectValue(1),
    MapValue(0), MapValue(1), ErrorValue, FalconErrorValue }

ArgNameInputs == { UndefinedValue, StringValue("", 0), StringValue("options", 7) }

ExcludeArrayInputs ==
  { UndefinedValue, BoolValue(TRUE), BoolValue(FALSE), StringValue("true", 4) }

ClassInputs == { "Error", "SfdxFalconError", "Map" }

ValidatorCalls ==
  { [fn |-> f, arg |-> a, classConstructor |-> "", dbgNsExt |-> Some("NS:caller"),
     argName |-> n, excludeArray |-> UndefinedValue] :
      f \in PlainValidators, a \in ArgInputs, n \in ArgNameInputs }
  \cup
  { [fn |-> f, arg |-> a, classConstructor |-> "", dbgNsExt |-> Some("NS:caller"),
     argName |-> n, excludeArray |-> x] :
      f \in ObjectValidators, a \in ArgInputs, n \in ArgNameInputs,
      x \in ExcludeArrayInputs }
  \cup
  { [fn |-> f, arg |-> a, classConstructor |-> c, dbgNsExt |-> Some("NS:caller"),
     argName |-> n, excludeArray |-> UndefinedValue] :
      f \in InstanceValidators, a \in ArgInputs, n \in ArgNameInputs,
      c \in ClassInputs }

InitTv ==
  /\ InitRunner
  /\ errIn = NoErrIn
  /\ errOut = Undefined
  /\ call \in ValidatorCalls
  /\ outcome = Undefined
  /\ InitDebug

ThrowOnXxx ==
  /\ call.fn \in Validators
  /\ outcome = Undefined
  /\ outcome' = Some(throwOnXxx(call.fn, call.arg, call.classConstructor,
                                call.dbgNsExt, call.argName, call.excludeArray))
  /\ UNCHANGED << runnerVars, errIn, errOut, call,
                  enabledDebugNamespaces, debugAll, debugOut >>

NextTv == ThrowOnXxx

SpecTv == InitTv /\ [][NextTv]_vars

\* ----------------------------------------- stand-alone SfdxTask construction
MaxCmdLen == 4   \* length of the command strings enumerated over CmdAlphabet

CmdAlphabet == {"s", "F", " ", "\t", "x"}

ConstructorNs == "SfdxTask:constructor"

TaskReturned(t) == [threw |-> FALSE, error |-> [class |-> "none"], task |-> <<t>>]
TaskThrew(e)    == [threw |-> TRUE,  error |-> e, task |-> << >>]

\* new SfdxTask(title, commandString, options) with an options object:
\* the argument checks, then the test of the command string, then the
\* member variables.
NewSfdxTask(title, commandString, opts) ==
  IF title = ""
    THEN TaskThrew(throwOnXxx("EmptyNullInvalidString", StringValue("", 0), "",
                              Some(ConstructorNs), StringValue("title", 5),
                              UndefinedValue).error)
  ELSE IF commandString = << >>
    THEN TaskThrew(throwOnXxx("EmptyNullInvalidString", StringValue("", 0), "",
                              Some(ConstructorNs),
                              StringValue("commandString", 13),
                              UndefinedValue).error)
  ELSE IF isSfCliCommandString(commandString) # TRUE
    THEN TaskThrew(SfdxFalconError(
           << "Invalid Command String: |-->", commandString,
              "<--|   SfdxTask objects can only be constructed with 'sf' or 'sfdx' command strings." >>,
           Some("Invalid SFDX Command String"), Some(ConstructorNs),
           Undefined, Undefined, Undefined))
  ELSE TaskReturned(SfdxTask(title, commandString, opts))

CommandInputs ==
  StringsUpTo(CmdAlphabet, MaxCmdLen)
    \cup { CmdA, CmdB,
           <<"s", "f", "d", "x", " ", "f", "o", "r", "c", "e">>,
           <<"s", "f", "d", "x">>,
           <<"s", "f", "d", " ", "a">>,
           <<"g", "i", "t", " ", "s", "t", "a", "t", "u", "s">>,
           <<" ", " ", "r", "m", " ", "-", "r", "f", " ", "/">>,
           <<"w", "h", "i", "c", "h", " ", "s", "f">> }

TaskCalls ==
  { [fn |-> "SfdxTask", title |-> "t", commandString |-> c,
     options |-> NoOptions] : c \in CommandInputs }
  \cup
  { [fn |-> "SfdxTask", title |-> "", commandString |-> c,
     options |-> NoOptions] : c \in {CmdA, << >>} }

InitTask ==
  /\ InitRunner
  /\ errIn = NoErrIn
  /\ errOut = Undefined
  /\ call \in TaskCalls
  /\ outcome = Undefined
  /\ InitDebug

ConstructTask ==
  /\ call.fn = "SfdxTask"
  /\ outcome = Undefined
  /\ outcome' = Some(NewSfdxTask(call.title, call.commandString, call.options))
  /\ UNCHANGED << runnerVars, errIn, errOut, call,
                  enabledDebugNamespaces, debugAll, debugOut >>

NextTask == ConstructTask

SpecTask == InitTask /\ [][NextTask]_vars

\* ------------------------------------------------------ SfdxFalconError.wrap
MaxWraps == 2   \* wrap calls applied in a row to one thrown value

\* A thrown value is a value without identity or a reference to an error
\* object of the heap.
ThrownValue(v) == [kind |-> "value", val |-> v,         id |-> 0]
ThrownRef(id)  == [kind |-> "ref",   val |-> BaseVal,   id |-> id]

\* error instanceof SfdxFalconError
InstanceOfSfdxFalconError_Never(e) == FALSE
InstanceOfSfdxFalconError(e) ==
  e.class \in {"SfdxFalconError", "SfdxCliError", "ShellError"}

\* sfdxFalconError.data = { unknownObj: error }
UnknownObj(v) == << <<"unknownObj", v>> >>

\* SfdxFalconError.wrap(error, source) on a heap of error objects: the heap
\* after the call and the reference returned.  (The stack text that wrap
\* rewrites is not modelled.)
wrap(errors, error, source) ==
  IF error.kind = "ref" /\ InstanceOfSfdxFalconError(errors[error.id])
    THEN [heap |-> errors, ref |-> error.id]
  ELSE IF error.kind = "ref"
    THEN [heap |-> Append(errors,
                     SfdxFalconError(errors[error.id].message,
                                     Some(errors[error.id].name), source,
                                     Undefined, Undefined, Undefined)),
          ref  |-> Len(errors) + 1]
  ELSE [heap |-> Append(errors,
                   [SfdxFalconError(
                      "Additional error detail saved to the SfdxFalconError.data Object.",
                      Some("UnknownError"), Undefined,
                      Undefined, Undefined, Undefined)
                    EXCEPT !.data = UnknownObj(error.val)]),
        ref  |-> Len(errors) + 1]

TypeErrorOf(message) ==
  [NativeError(message, StringArg("")) EXCEPT !.class = "TypeError",
                                               !.name = "TypeError"]

ThrownErrors ==
  { NativeError("boom", StringArg("")),
    TypeErrorOf("bad"),
    SfdxFalconError("inner", Some("InnerError"), Some("Origin"),
                    Undefined, Undefined, Undefined),
    [SfdxFalconError("cli", Some("SfdxCliError"), Some(""),
                     Undefined, Undefined, Undefined)
       EXCEPT !.class = "SfdxCliError"] }

ThrownValues ==
  { UndefinedValue, NullValue, NumberValue, StringValue("oops", 4),
    ObjectValue(1) }

SourceInputs == { Undefined, Some("A"), Some("B") }

WrapCalls ==
  { [fn |-> "wrap", thrown |-> ThrownRef(1), object |-> <<e>>,
     sources |-> << >>] : e \in ThrownErrors }
  \cup
  { [fn |-> "wrap", thrown |-> ThrownValue(v), object |-> << >>,
     sources |-> << >>] : v \in ThrownValues }

InitWrap ==
  /\ InitRunner
  /\ errIn = NoErrIn
  /\ errOut = Undefined
  /\ call \in WrapCalls
  /\ outcome = [heap |-> call.object, results |-> << >>]
  /\ InitDebug

\* wrap(e, source), and then wrap(<what the call before returned>, source)
Wrap(source) ==
  /\ call.fn = "wrap"
  /\ Len(outcome.results) < MaxWraps
  /\ LET error == IF outcome.results = << >>
                    THEN call.thrown
                    ELSE ThrownRef(outcome.results[Len(outcome.results)])
         r     == wrap(outcome.heap, error, source)
     IN  outcome' = [heap |-> r.heap,
                     results |-> Append(outcome.results, r.ref)]
  /\ call' = [call EXCEPT !.sources = Append(@, source)]
  /\ UNCHANGED << runnerVars, errIn, errOut,
                  enabledDebugNamespaces, debugAll, debugOut >>

NextWrap == \E source \in SourceInputs : Wrap(source)

SpecWrap == InitWrap /\ [][NextWrap]_vars

\* ---------------------------------------------------------------- SfdxCliError
\* parsedError[key]: undefined for a missing key and for a value that is
\* not an object.
Get(v, key) ==
  IF v.t = "obj" /\ key \in OwnKeys(v)
    THEN Some((CHOOSE mem \in { v.m[k] : k \in 1..Len(v.m) } : mem.k = key).v)
    ELSE Undefined

\* The truth of a property value in `x || default` and `if (x)`.
JTruthy(o) ==
  /\ IsDefined(o)
  /\ \/ Val(o).t = "obj"
     \/ Val(o).t = "num" /\ Val(o).n # 0
     \/ Val(o).t = "str" /\ Val(o).s # << >>

OrElse(o, default) == IF JTruthy(o) THEN Val(o) ELSE default

\* isNaN(x): x is converted to a number first; undefined and objects give
\* NaN, null gives 0, a string gives the number it spells, if any.
isNaN(o) ==
  \/ ~IsDefined(o)
  \/ Val(o).t = "obj"
  \/ Val(o).t = "str" /\ \E k \in 1..Len(Val(o).s) : ~IsDigit(Val(o).s[k])

kName    == <<"n", "a", "m", "e">>
kMessage == <<"m", "e", "s", "s", "a", "g", "e">>
kStatus  == <<"s", "t", "a", "t", "u", "s">>
kResult  == <<"r", "e", "s", "u", "l", "t">>
kStack   == <<"s", "t", "a", "c", "k">>

UnknownCliErrorName    == JStr(<<"UnknownCliError">>)
UnknownCliErrorMessage == JStr(<<"Unknown CLI Error (see 'cliError.result.rawResult' for original CLI response)">>)
UnparseableName        == JStr(<<"UnparseableCliError">>)
UnparseableMessage     == JStr(<<"Unparseable CLI Error (see 'cliError.result.rawResult' for raw error)">>)

\* The catch block of the constructor.
UnparseableCliError ==
  [ name |-> UnparseableName, message |-> UnparseableMessage,
    status |-> JNum(999) ]

\* findJson(parsedError.stack) ends the try block with a TypeError when the
\* stack is not a string (undefined included), and when findJson itself
\* throws.
StackSearchThrows(stack) ==
  \/ ~IsDefined(stack)
  \/ Val(stack).t # "str"
  \/ findJson(Val(stack).s).threw

\* The try block of the constructor: the cliError it builds, or the one of
\* the catch block when JSON.parse or any later statement throws.
CliErrorOf(stdoutBuffer) ==
  LET parsed      == JSONparse(stdoutBuffer)
      parsedError == parsed.v
  IN  IF ~parsed.ok \/ parsedError.t = "null" THEN UnparseableCliError
      ELSE IF ~JTruthy(Get(parsedError, kResult))
              /\ StackSearchThrows(Get(parsedError, kStack))
        THEN UnparseableCliError
      ELSE [ name    |-> OrElse(Get(parsedError, kName), UnknownCliErrorName),
             message |-> OrElse(Get(parsedError, kMessage),
                                UnknownCliErrorMessage),
             status  |-> IF isNaN(Get(parsedError, kStatus))
                           THEN JNum(1)
                           ELSE Val(Get(parsedError, kStatus)) ]

\* message = 'Unknown CLI Error', source = ''
DefaultOf(o, default) == IF IsDefined(o) THEN Val(o) ELSE default

\* new SfdxCliError(sfdxCommandString, stdoutBuffer, stderrBuffer, message,
\* source)
SfdxCliError(sfdxCommandString, stdoutBuffer, stderrBuffer, message, source) ==
  LET cliError == CliErrorOf(stdoutBuffer)
      base     == SfdxFalconError(
                    << DefaultOf(message, "Unknown CLI Error"), ". ",
                       cliError.message >>,
                    Some("SfdxCliError"), Some(DefaultOf(source, "")),
                    Undefined, Undefined, Undefined)
  IN  [ error    |-> [base EXCEPT !.class = "SfdxCliError"],
        cliError |-> cliError ]

\* ------------------------------------------- stand-alone SfdxCliError calls
OptionalMember(key, values) ==
  { << >> } \cup { << [k |-> key, v |-> x] >> : x \in values }

Boom == JStr(<<"b", "o", "o", "m">>)

PayloadInputs ==
  { JObj(a \o b \o c \o d \o e) :
      a \in OptionalMember(kMessage, {Boom}),
      b \in OptionalMember(kStatus, {JNum(5), JStr(<<"x">>), JNull}),
      c \in OptionalMember(kName, {JStr(<<"E">>)}),
      d \in OptionalMember(kResult,
                           {JObj(<< [k |-> Key("a"), v |-> JNum(1)] >>)}),
      e \in OptionalMember(kStack,
                           {JStr(<<"a", "t", " ", "x">>),
                            JStr(<<"a", "t", " ", "{", "}">>), JNum(5)}) }

CliCalls ==
  { [fn |-> "SfdxCliError", stdoutBuffer |-> Stringify(p),
     payload |-> Some(p)] : p \in PayloadInputs }
  \cup
  { [fn |-> "SfdxCliError", stdoutBuffer |-> b, payload |-> Undefined] :
      b \in { << >>, <<"1">>, <<"n", "u", "l", "l">>, <<"o", "o", "p", "s">>,
              <<"{", "\"", "a", "\"", ":">> } }

InitCli ==
  /\ InitRunner
  /\ errIn = NoErrIn
  /\ errOut = Undefined
  /\ call \in CliCalls
  /\ outcome = Undefined
  /\ InitDebug

ConstructCliError ==
  /\ call.fn = "SfdxCliError"
  /\ outcome = Undefined
  /\ outcome' = Some(SfdxCliError(CmdA, call.stdoutBuffer, << >>,
                                  Undefined, Undefined))
  /\ UNCHANGED << runnerVars, errIn, errOut, call,
                  enabledDebugNamespaces, debugAll, debugOut >>

NextCli == ConstructCliError

SpecCli == InitCli /\ [][NextCli]_vars

\* ------------------------------------------- the constructors of the subtypes
\* Two values that JSON.parse never returns but that a caller may pass or a
\* default may produce: undefined, and the empty array [].
JUndef      == [t |-> "undefined", n |-> 0, s |-> << >>, m |-> << >>]
JEmptyArray == [t |-> "array",     n |-> 0, s |-> << >>, m |-> << >>]

\* An argument as a value: undefined when it is left out.
ArgValue(o) == IF IsDefined(o) THEN Val(o) ELSE JUndef

\* x || default, for an argument
ArgOrElse(o, default) == IF JTruthy(o) THEN Val(o) ELSE default

\* The text JSON.parse works on: its argument converted to a string.
TextOf(v) ==
  CASE v.t = "str"       -> v.s
    [] v.t = "num"       -> NumChars(v.n)
    [] v.t = "null"      -> <<"n", "u", "l", "l">>
    [] v.t = "undefined" -> <<"u", "n", "d", "e", "f", "i", "n", "e", "d">>
    [] OTHER             -> <<"[", "o", "b", "j", "e", "c", "t", "]">>

kToString == <<"t", "o", "S", "t", "r", "i", "n", "g">>
kRawResult == <<"r", "a", "w", "R", "e", "s", "u", "l", "t">>
kAction   == <<"a", "c", "t", "i", "o", "n">>
kWarnings == <<"w", "a", "r", "n", "i", "n", "g", "s">>

\* `${value}`: the conversion to a string calls the value's toString, then
\* its valueOf.  An object parsed from JSON whose own `toString` member
\* hides Object.prototype.toString has no callable toString, and its valueOf
\* returns the object itself, so the conversion ends in a TypeError.
TemplateThrows(v) == v.t = "obj" /\ kToString \in OwnKeys(v)

CommandNotProvided == JStr(<<"Command String Not Provided">>)

\* { rawResult: x }
RawResult(x) == JObj(<< [k |-> kRawResult, v |-> x] >>)

\* The statements of the try block that follow the first six, run on a
\* parsed payload that is an object, a number or a string.
MergedStack(parsedError, found) ==
  IF found.t \in {"null"}
       \/ (found.t = "num" /\ found.n = 0)
       \/ (found.t = "str" /\ found.s = << >>)
    THEN parsedError
    ELSE JObj(SetMember(parsedError.m, kStack, found))

TailOf(parsedError, stack) ==
  [ actions  |-> IF JTruthy(Get(parsedError, kAction))
                   THEN << Val(Get(parsedError, kAction)) >> ELSE << >>,
    warnings |-> OrElse(Get(parsedError, kWarnings), JEmptyArray),
    stack    |-> OrElse(stack, JStr(<< >>)),
    result   |-> IF JTruthy(Get(parsedError, kResult))
                   THEN Val(Get(parsedError, kResult))
                   ELSE RawResult(MergedStack(parsedError,
                                              findJson(Val(stack).s).value)) ]

ParsedTail(parsedError) == TailOf(parsedError, Get(parsedError, kStack))

\* The catch block, past the three buffers.
UnparseableTail(stdoutBuffer) ==
  [ actions  |-> << >>,
    warnings |-> JEmptyArray,
    stack    |-> UnparseableMessage,
    result   |-> RawResult(ArgValue(stdoutBuffer)) ]

\* The whole cliError object the constructor builds.
CliErrorFields(sfdxCommandString, stdoutBuffer, stderrBuffer, core, tail) ==
  [ command  |-> ArgOrElse(sfdxCommandString, CommandNotProvided),
    stdout   |-> ArgOrElse(stdoutBuffer, JStr(<< >>)),
    stderr   |-> ArgOrElse(stderrBuffer, JStr(<< >>)),
    name     |-> core.name,
    message  |-> core.message,
    status   |-> core.status,
    actions  |-> tail.actions,
    warnings |-> tail.warnings,
    stack    |-> tail.stack,
    result   |-> tail.result ]

TailFor(text, stdoutBuffer, core) ==
  IF core.name # UnparseableName THEN ParsedTail(JSONparse(text).v)
                                 ELSE UnparseableTail(stdoutBuffer)

CoreAndTail(sfdxCommandString, stdoutBuffer, stderrBuffer, text, core) ==
  CliErrorFields(sfdxCommandString, stdoutBuffer, stderrBuffer, core,
                 TailFor(text, stdoutBuffer, core))

CliErrorFrom(sfdxCommandString, stdoutBuffer, stderrBuffer, text) ==
  CoreAndTail(sfdxCommandString, stdoutBuffer, stderrBuffer, text,
              CliErrorOf(text))

FullCliError(sfdxCommandString, stdoutBuffer, stderrBuffer) ==
  CliErrorFrom(sfdxCommandString, stdoutBuffer, stderrBuffer,
               TextOf(ArgValue(stdoutBuffer)))

NotBuilt == [class |-> "none"]

CtorReturned(e, d) == [threw |-> FALSE, thrown |-> "",  error |-> e, detail |-> d]
CtorThrew(name)    == [threw |-> TRUE,  thrown |-> name, error |-> NotBuilt,
                       detail |-> NotBuilt]

\* new SfdxCliError(sfdxCommandString, stdoutBuffer, stderrBuffer): what the
\* expression evaluates to, or what it throws.  The argument of super(),
\* `${message}. ${cliError.message}`, is evaluated outside the try block.
CtorResult(cliError, base) ==
  IF TemplateThrows(cliError.message) THEN CtorThrew("TypeError")
  ELSE CtorReturned(base, cliError)

NewSfdxCliError(sfdxCommandString, stdoutBuffer, stderrBuffer) ==
  CtorResult(FullCliError(sfdxCommandString, stdoutBuffer, stderrBuffer),
             SfdxCliError(
               IF JTruthy(sfdxCommandString) THEN Val(sfdxCommandString).s
                                             ELSE << >>,
               TextOf(ArgValue(stdoutBuffer)), << >>,
               Undefined, Undefined).error)

\* ------------------------------------------------------------------ ShellError
Newline == "\n"

\* buffer.substring(0, buffer.indexOf('\n'))
UpToNewline(buffer) == Substring(buffer, 0, IndexOf(buffer, Newline))

\* typeof buffer === 'string' && buffer
NonEmptyString(o) == IsDefined(o) /\ Val(o).t = "str" /\ Val(o).s # << >>

TextMessage(s) ==
  [kind |-> "text", text |-> s, code |-> JUndef, signal |-> JUndef]

\* `Unknown Shell Error (code=${code}, signal=${signal})`
UnknownShellError(code, signal) ==
  [kind |-> "unknown", text |-> << >>, code |-> code, signal |-> signal]

\* The message the constructor settles on.  `message = ''` is the default
\* of the parameter, and !message holds for '' as well.
ShellMessage(code, signal, stdErrBuffer, stdOutBuffer, message) ==
  IF IsDefined(message) /\ Val(message) # << >> THEN TextMessage(Val(message))
  ELSE IF NonEmptyString(stdErrBuffer)
    THEN TextMessage(UpToNewline(Val(stdErrBuffer).s))
  ELSE IF NonEmptyString(stdOutBuffer)
    THEN TextMessage(UpToNewline(Val(stdOutBuffer).s))
  ELSE UnknownShellError(ArgValue(code), ArgValue(signal))

\* new ShellError(command, code, signal, stdErrBuffer, stdOutBuffer, source,
\* message); stdOutBuffer = null is the default of the parameter.
ShellError(command, code, signal, stdErrBuffer, stdOutBuffer, source, message) ==
  LET msg  == ShellMessage(code, signal, stdErrBuffer, stdOutBuffer, message)
      base == SfdxFalconError(msg, Some("ShellError"),
                              Some(DefaultOf(source, "")),
                              Undefined, Undefined, Undefined)
  IN  CtorReturned(
        [base EXCEPT !.class = "ShellError"],
        [ command |-> ArgValue(command),
          code    |-> ArgValue(code),
          signal  |-> ArgValue(signal),
          stdout  |-> IF IsDefined(stdOutBuffer) THEN Val(stdOutBuffer)
                                                 ELSE JNull,
          stderr  |-> ArgValue(stdErrBuffer),
          message |-> msg ])

\* ------------------------------------- stand-alone calls of the constructors
\* A payload whose message cannot be converted to a string.
OddMessage == JObj(<< [k |-> kToString, v |-> JNum(1)] >>)

ResultA == JObj(<< [k |-> Key("a"), v |-> JNum(1)] >>)

StdoutPayloads ==
  { JObj(<< [k |-> kMessage, v |-> Boom], [k |-> kStatus, v |-> JNum(5)] >>),
    JObj(<< [k |-> kMessage, v |-> Boom], [k |-> kResult, v |-> ResultA] >>),
    JObj(<< [k |-> kMessage, v |-> OddMessage],
            [k |-> kResult, v |-> ResultA] >>),
    JObj(<< [k |-> kMessage, v |-> OddMessage] >>),
    JObj(<< [k |-> kWarnings, v |-> JStr(<<"w">>)],
            [k |-> kStack, v |-> JStr(<<"a", "t", " ", "{", "}">>)] >>) }

NotJson == <<"n", "o", "t", " ", "j", "s", "o", "n">>

StdoutInputs ==
  { Undefined, Some(JNull), Some(JNum(5)), Some(JStr(<< >>)),
    Some(JStr(NotJson)), Some(JStr(<<"1">>)),
    Some(JStr(<<"n", "u", "l", "l">>)), Some(JStr(<<"{", "\"", "a">>)) }
  \cup { Some(JStr(Stringify(p))) : p \in StdoutPayloads }

StderrInputs ==
  { Undefined, Some(JNull), Some(JNum(5)), Some(JStr(<< >>)),
    Some(JStr(<<"e", "r", "r">>)),
    Some(JStr(<<"e", "1", Newline, "e", "2">>)),
    Some(JStr(<<Newline, "x">>)) }

ShellStdoutInputs ==
  { Undefined, Some(JNull), Some(JStr(<< >>)), Some(JStr(<<"o", "u", "t">>)),
    Some(JStr(<<"o", "1", Newline, "o", "2", Newline>>)) }

CommandArgInputs == { Undefined, Some(JStr(CmdA)) }

CtorCalls ==
  [ fn : {"SfdxCliError"}, command : CommandArgInputs, code : {Undefined},
    signal : {Undefined}, stdout : StdoutInputs, stderr : StderrInputs,
    message : {Undefined} ]
  \cup
  [ fn : {"ShellError"}, command : CommandArgInputs,
    code : {Undefined, Some(JNum(1))},
    signal : {Undefined, Some(JStr(<<"SIGTERM">>))},
    stdout : ShellStdoutInputs, stderr : StderrInputs,
    message : {Undefined, Some(<< >>), Some(<<"given">>)} ]

InitCtor ==
  /\ InitRunner
  /\ errIn = NoErrIn
  /\ errOut = Undefined
  /\ call \in CtorCalls
  /\ outcome = Undefined
  /\ InitDebug

ConstructSfdxCliError ==
  /\ call.fn = "SfdxCliError"
  /\ outcome = Undefined
  /\ outcome' = Some(NewSfdxCliError(call.command, call.stdout, call.stderr))
  /\ UNCHANGED << runnerVars, errIn, errOut, call,
                  enabledDebugNamespaces, debugAll, debugOut >>

ConstructShellError ==
  /\ call.fn = "ShellError"
  /\ outcome = Undefined
  /\ outcome' = Some(ShellError(call.command, call.code, call.signal,
                                call.stderr, call.stdout, Undefined,
                                call.message))
  /\ UNCHANGED << runnerVars, errIn, errOut, call,
                  enabledDebugNamespaces, debugAll, debugOut >>

NextCtor == ConstructSfdxCliError \/ ConstructShellError

SpecCtor == InitCtor /\ [][NextCtor]_vars

\* ------------------------------------------------------------------ renderError
Section(condition, label) == IF condition THEN << label >> ELSE << >>

\* childInspectDepth = 2 as the default of the parameter, then
\* childInspectDepth || 2 in renderOptions.
ChildInspectDepth(childInspectDepth) ==
  LET given == IF IsDefined(childInspectDepth) THEN Val(childInspectDepth)
                                               ELSE 2
  IN  IF given # 0 THEN given ELSE 2

\* renderBaseDetail(errorToRender, options): the sections it lays down.
\* (detail is {} and data is {} in every error the constructors return.)
renderBaseDetail(errorToRender, actions) ==
  << "Error Name", "Error Message" >>
    \o Section(actions # << >>, "SfdxError Actions")
    \o << "Error Source", "Error Stack" >>
    \o Section(errorToRender.resultStack # << >>, "Result Stack")

\* renderSfdxCliErrorDetail(errorToRender, options)
renderSfdxCliErrorDetail(cliError, childInspectDepth) ==
  Section(~IsEmptyValue(cliError.command), "CLI Command")
    \o Section(~IsEmptyValue(cliError.name), "CLI Error Name")
    \o Section(~IsEmptyValue(cliError.message), "CLI Error Message")
    \o Section(~IsEmptyValue(cliError.status), "CLI Error Status")
    \o Section(~IsEmptyValue(cliError.stdout), "CLI Error StdOut")
    \o Section(~IsEmptyValue(cliError.stderr), "CLI Error StdErr")
    \o << "CLI Error Actions" >>
    \o Section(~IsEmptyValue(cliError.warnings), "CLI Error Warnings")
    \o Section(~IsEmptyValue(cliError.stack) /\ childInspectDepth >= 5,
               "CLI Error Stack")
    \o Section(~IsEmptyValue(cliError.result) /\ childInspectDepth >= 2,
               "CLI Error Raw Result")

\* if (errorToRender.shellError.code): a number other than 0
CodeTruthy(code) == code.t = "num" /\ code.n # 0

\* The message of a ShellError is empty only as an empty text.
EmptyShellMessage(msg) == msg.kind = "text" /\ msg.text = << >>

\* renderShellErrorDetail(errorToRender, options)
renderShellErrorDetail(shellError) ==
  Section(~IsEmptyValue(shellError.command), "ShellError Command")
    \o Section(CodeTruthy(shellError.code), "ShellError Code")
    \o Section(~IsEmptyValue(shellError.signal), "ShellError Signal")
    \o Section(~EmptyShellMessage(shellError.message), "ShellError Message")
    \o Section(~IsEmptyValue(shellError.stderr), "ShellError StdErr")
    \o Section(~IsEmptyValue(shellError.stdout), "ShellError StdOut")

\* renderUnknownDetail(unknownObject, options)
renderUnknownDetail ==
  << "Error Name: UNKNOWN",
     "Error Message: The object provided is not of type 'Error'",
     "Error Stack: Not Available", "Raw Object" >>

\* SfdxFalconError.renderError(errorToRender, childInspectDepth), where
\* errorToRender is what a constructor returned (the error and the detail
\* object attached to it) or a value that is no Error (error.class "none").
renderError(errorToRender, childInspectDepth) ==
  LET depth == ChildInspectDepth(childInspectDepth)
      class == errorToRender.error.class
  IN  IF class \notin {"Error", "SfdxFalconError", "SfdxCliError", "ShellError"}
        THEN renderUnknownDetail
      ELSE renderBaseDetail(errorToRender.error,
                            IF class = "SfdxCliError"
                              THEN errorToRender.detail.actions ELSE << >>)
             \o (IF class = "SfdxCliError"
                   THEN renderSfdxCliErrorDetail(errorToRender.detail, depth)
                   ELSE << >>)
             \o (IF class = "ShellError"
                   THEN renderShellErrorDetail(errorToRender.detail)
                   ELSE << >>)

\* ----------------------------------------- stand-alone calls of renderError
DepthInputs == { Undefined, Some(0), Some(1), Some(2), Some(4), Some(5), Some(6) }

\* The value handed to renderError by a call.
ErrorToRender(c) ==
  CASE c.target = "SfdxCliError" ->
         NewSfdxCliError(c.command, c.stdout, c.stderr)
    [] c.target = "ShellError" ->
         ShellError(c.command, c.code, c.signal, c.stderr, c.stdout,
                    Undefined, c.message)
    [] OTHER -> CtorReturned(NotBuilt, NotBuilt)

RenderCalls ==
  { [fn |-> "renderError", target |-> c.fn, command |-> c.command,
     code |-> c.code, signal |-> c.signal, stdout |-> c.stdout,
     stderr |-> c.stderr, message |-> c.message, depth |-> d] :
      c \in { x \in CtorCalls :
                /\ x.fn = "SfdxCliError" =>
                     ~NewSfdxCliError(x.command, x.stdout, x.stderr).threw
                /\ x.fn = "ShellError" =>
                     x.message = Undefined /\ x.signal = Undefined },
      d \in DepthInputs }
  \cup
  { [fn |-> "renderError", target |-> "value", command |-> Undefined,
     code |-> Undefined, signal |-> Undefined, stdout |-> Undefined,
     stderr |-> Undefined, message |-> Undefined, depth |-> d] :
      d \in DepthInputs }

InitRender ==
  /\ InitRunner
  /\ errIn = NoErrIn
  /\ errOut = Undefined
  /\ call \in RenderCalls
  /\ outcome = Undefined
  /\ InitDebug

RenderError ==
  /\ call.fn = "renderError"
  /\ outcome = Undefined
  /\ outcome' = Some(renderError(ErrorToRender(call), call.depth))
  /\ UNCHANGED << runnerVars, errIn, errOut, call,
                  enabledDebugNamespaces, debugAll, debugOut >>

NextRender == RenderError

SpecRender == InitRender /\ [][NextRender]_vars

\* ------------------------------------------------------------------ addToStack
MaxStack == 3   \* addToStack calls on one error

Indent == "    "

\* One line of a result stack.
StackLine(stackItem) == [indent |-> Indent, item |-> stackItem]

\* error.addToStack(stackItem): `${indent}${stackItem}\n${this._resultStack}`,
\* or `${indent}${stackItem}` alone when the result stack is empty.
addToStack(error, stackItem) ==
  [error EXCEPT !.resultStack = << StackLine(stackItem) >> \o @]

StackItems == {"a", "b", "c"}

\* Causes with and without a result stack of their own.
CauseWithStack(lines) ==
  [SfdxFalconError("inner", Undefined, Undefined, Undefined, Undefined,
                   Undefined) EXCEPT !.resultStack = lines]

StackErrInputs ==
  [ message  : {"boom"},
    name     : {Undefined},
    source   : {Some("My:Source")},
    cause    : {Undefined, Some(NativeError("inner", StringArg(""))),
                Some(CauseWithStack(<< StackLine("x") >>)),
                Some(CauseWithStack(<< StackLine("y"), StackLine("x") >>))},
    actions  : {Undefined},
    exitCode : {Undefined} ]

InitStack ==
  /\ InitRunner
  /\ errIn \in StackErrInputs
  /\ errOut = Undefined
  /\ InitLib

\* error.addToStack(stackItem) on the error constructed; `call` keeps the
\* items given so far, oldest first.
AddToStack(stackItem) ==
  /\ IsDefined(errOut)
  /\ LET given == IF call.fn = "addToStack" THEN call.items ELSE << >>
     IN  /\ Len(given) < MaxStack
         /\ call' = [fn |-> "addToStack", items |-> Append(given, stackItem)]
  /\ errOut' = Some(addToStack(Val(errOut), stackItem))
  /\ UNCHANGED << runnerVars, errIn, outcome,
                  enabledDebugNamespaces, debugAll, debugOut >>

NextStack ==
  \/ ConstructError
  \/ \E stackItem \in StackItems : AddToStack(stackItem)

SpecStack == InitStack /\ [][NextStack]_vars

\* ------------------------------------------- a batch and what its commands write
MaxDiagTasks == 1   \* tasks in a batch whose commands' output is under study

OopsText == <<"o", "o", "p", "s">>

\* What a failing command may leave in stderr and in stdout.
ProcessStderrInputs ==
  { << >>, OopsText, Stringify(ResultA), <<"{", "}">>,
    <<"n", "u", "l", "l", "{">>,
    <<Esc, "[", "3", "1", "m">> \o Stringify(ResultA) }

ProcessStdoutInputs ==
  { << >>, OopsText,
    Stringify(JObj(<< [k |-> kMessage, v |-> Boom],
                      [k |-> kStatus, v |-> JNum(1)] >>)) }

StdioCalls ==
  { [fn |-> "stdio", stderr |-> e, stdout |-> o] :
      e \in ProcessStderrInputs, o \in ProcessStdoutInputs }

InitDiag ==
  /\ InitRunner
  /\ errIn = NoErrIn
  /\ errOut = Undefined
  /\ call \in StdioCalls
  /\ outcome = Undefined
  /\ InitDebug

NextDiag ==
  \/ run.state = "idle" /\ GetInstance
  \/ \E in \in TaskInputs : Len(tasks) < MaxDiagTasks /\ AddTask(in)
  \/ RunTasks
  \/ \E i \in 1..Len(tasks) : Spawn(i)
  \/ \E i \in 1..Len(tasks), ok \in BOOLEAN : CommandExit(i, ok)
  \/ \E i \in 1..Len(tasks), throws \in BOOLEAN : HookDone(i, throws)
  \/ Finish

SpecDiag == InitDiag /\ [][NextDiag]_vars

\* ------------------------------------------------ addTask with any argument
MaxAddCalls == 2   \* addTask calls with something that is no SfdxTask
MaxAddTasks == 2   \* tasks in the list while such calls are made

\* A task object that is not an SfdxTask, as Listr keeps it.
RawTask(taskToAdd) == [title |-> "raw", raw |-> taskToAdd]

\* throw new SfdxFalconError(`Caught error while adding raw task to Listr.`, ...)
RawTaskError ==
  SfdxFalconError("Caught error while adding raw task to Listr.",
                  Some("SFDX TaskRunner Error"), Some("TaskRunner:addTask"),
                  Some([class |-> "Error"]), Undefined, Undefined)

\* Mutant: the check made with arrays counted as objects.
ValidateTaskToAdd_ArraysAllowed(taskToAdd) ==
  throwOnXxx("EmptyNullInvalidObject", taskToAdd, "",
             Some("TaskRunner:addTask"), taskToAdd, BoolValue(FALSE))

\* throwOnEmptyNullInvalidObject(taskToAdd, `${localDbgNs}`, taskToAdd, true)
ValidateTaskToAdd(taskToAdd) ==
  throwOnXxx("EmptyNullInvalidObject", taskToAdd, "",
             Some("TaskRunner:addTask"), taskToAdd, BoolValue(TRUE))

TaskArgInputs ==
  { UndefinedValue, NullValue, NumberValue, StringValue("abc", 3),
    FunctionValue, ArrayValue(0), ArrayValue(2), ObjectValue(0),
    ObjectValue(2) }

\* tr.addTask(taskToAdd) with something that is not an SfdxTask: the check
\* of the argument, then this.tasks.add(taskToAdd) in its try block, which
\* Listr accepts or not.  `call` numbers these calls.
AddTaskArg(taskToAdd, listrAccepts) ==
  /\ trInstance # Null
  /\ run.state = "idle"
  /\ LET n       == IF call.fn = "addTask" THEN call.n ELSE 0
         checked == ValidateTaskToAdd(taskToAdd)
     IN  /\ n < MaxAddCalls
         /\ call' = [fn |-> "addTask", arg |-> taskToAdd, n |-> n + 1]
         /\ IF checked.threw
              THEN /\ outcome' = Some(checked)
                   /\ UNCHANGED << tasks, rt >>
            ELSE IF listrAccepts
              THEN /\ outcome' = Some(ValidatorReturned)
                   /\ tasks' = Append(tasks, RawTask(taskToAdd))
                   /\ rt' = Append(rt, FreshRt)
            ELSE /\ outcome' = Some(ValidatorThrew(RawTaskError))
                 /\ UNCHANGED << tasks, rt >>
  /\ lastCall' = NoCall
  /\ UNCHANGED << trInstance, constructed, ctx, options, heap, isRunning, run,
                  errIn, errOut, enabledDebugNamespaces, debugAll, debugOut >>

\* The runner while tasks are being registered.
NextAdd ==
  \/ GetInstance
  \/ SetCtx
  \/ \E in \in TaskInputs : Len(tasks) < MaxAddTasks /\ AddTask(in)
  \/ \E taskToAdd \in TaskArgInputs, listrAccepts \in BOOLEAN :
       Len(tasks) < MaxAddTasks /\ AddTaskArg(taskToAdd, listrAccepts)

SpecAdd == Init /\ [][NextAdd]_vars

\* ================================================================ claims
DefaultRunner ==
  /\ trInstance # Null
  /\ ~options.concurrent
  /\ options.exitOnError

\* The runner still holds the context it was constructed with.
OwnCtx == ctx = options.ctx

CommandStringsOf(ts) == [k \in 1..Len(ts) |-> ts[k].commandString]

InFlight(r) == r.status \in {"running", "onSuccess", "onError"}

OnErrorCalls(r) == { k \in 1..Len(r.calls) : r.calls[k].hook = "onError" }

\* C1: in a runner with default options holding T1, T2, T3, where T1's
\* command succeeds and T2's command fails with suppressErrors false, no
\* process is ever spawned for T3, the promise of runTasks is never resolved
\* and, once T2's task function has ended, it is rejected with an
\* SfdxFalconError; T3's command string is in the context's commandStrings.
C1_Scenario ==
  /\ DefaultRunner /\ OwnCtx
  /\ Len(tasks) = 3
  /\ rt[1].proc = "ok"
  /\ rt[2].proc = "fail"
  /\ ~tasks[2].suppressErrors

C2_Scenario ==
  /\ DefaultRunner
  /\ Len(tasks) = 3
  /\ rt[2].proc = "fail"
  /\ tasks[2].suppressErrors
  /\ tasks[2].onError

HookAwaited(i) ==
  /\ rt[i].calls = << [hook |-> "onError", arg |-> ProcessError(i),
                        ctx |-> ListrCtx, task |-> i] >>
  /\ rt[i].status = "onError" => ~IsDefined(rt[i].thrown)

C4_InOrder ==
  DefaultRunner =>
    \A i \in 1..Len(tasks) :
      (~tasks[i].concurrent /\ Started(rt[i])) =>
        \A j \in 1..(i - 1) : Settled(rt[j])

C4_Witness ==
  /\ DefaultRunner
  /\ Len(tasks) >= 2
  /\ ~tasks[2].concurrent
  /\ rt[2].status = "running"
  /\ Len(rt[1].calls) = 1

\* C5 (as claimed): next to a running task marked concurrent, a task marked
\* concurrent may be spawned; and a task not marked concurrent is never in
\* flight together with another task.
C5_Original ==
  /\ \A i \in 1..(Len(tasks) - 1) :
       ( /\ tasks[i].concurrent /\ tasks[i + 1].concurrent
         /\ run.state = "running"
         /\ rt[i].status = "running" /\ rt[i + 1].status = "pending" )
       => MayStart(i + 1)
  /\ \A i \in 1..Len(tasks) :
       (~tasks[i].concurrent /\ InFlight(rt[i])) =>
         \A j \in 1..Len(tasks) : j # i => ~InFlight(rt[j])

\* C6 (as claimed): when runTasks rejects because a command failed without
\* suppression, the rejection's cause is the task's error and that error's
\* cause is the process error.
C6_Original ==
  \A i \in 1..Len(tasks) :
    ( /\ ~options.concurrent
      /\ run.state = "rejected"
      /\ rt[i].status = "failed"
      /\ Val(rt[i].thrown) = CommandFailedError(ProcessError(i)) )
    => /\ Val(run.error).cause = rt[i].thrown
       /\ Val(rt[i].thrown).cause = Some(ProcessError(i))

\* C7: at most one TaskRunner is ever constructed; getInstance() returns the
\* stored instance; a direct construction while an instance exists throws an
\* SfdxFalconError; the stored instance is never replaced or cleared.
C7_State ==
  /\ constructed <= 1
  /\ lastCall.op = "getInstance" =>
        /\ lastCall.ok
        /\ lastCall.value # Null
        /\ lastCall.value = trInstance

C7_Step ==
  /\ trInstance # Null => trInstance' = trInstance
  /\ (trInstance # Null /\ lastCall'.op = "new") =>
        /\ ~lastCall'.ok
        /\ IsSfdxFalconError(Val(lastCall'.error))

C7_Singleton == [](C7_State) /\ [][C7_Step]_vars

C7_Witness ==
  /\ lastCall.op = "new"
  /\ ~lastCall.ok
  /\ constructed = 1

\* C8 (as claimed): the commandStrings of every context the runner has held
\* is an array (or still absent when no task was added under it), and
\* together, in order, they hold the command strings of the added tasks.
RECURSIVE AllRecorded(_)
AllRecorded(n) ==
  IF n = 0 THEN << >>
           ELSE AllRecorded(n - 1) \o heap[n].commandStrings.arr

C8_Original ==
  /\ \A c \in 1..Len(heap) : heap[c].commandStrings.kind # "number"
  /\ AllRecorded(Len(heap)) = CommandStringsOf(tasks)

\* C9 (as claimed): runTasks resolves to the runner's ctx, which is the
\* object every hook was given and holds the commandStrings audit trail.
C9_Original ==
  run.state = "resolved" =>
    /\ run.value = ctx
    /\ \A i \in 1..Len(tasks) : \A k \in 1..Len(rt[i].calls) :
          /\ rt[i].calls[k].ctx = run.value
          /\ i \in heap[run.value].written
    /\ heap[run.value].commandStrings = ArrayVal(CommandStringsOf(tasks))

\* C10 (as claimed): the constructed error carries the given message, the
\* given name or 'SfdxFalconError', the given source or 'Unhandled
\* Exception', the given cause, the given actions, and the given exitCode
\* or 1.
C10_Original ==
  IsDefined(errOut) =>
    LET e == Val(errOut)
    IN  /\ e.message = errIn.message
        /\ e.name = (IF IsDefined(errIn.name) THEN Val(errIn.name)
                                              ELSE "SfdxFalconError")
        /\ e.source = (IF IsDefined(errIn.source) THEN Val(errIn.source)
                                                  ELSE "Unhandled Exception")
        /\ e.cause = errIn.cause
        /\ IsDefined(errIn.actions) => e.actions = errIn.actions
        /\ e.exitCode = (IF IsDefined(errIn.exitCode) THEN errIn.exitCode
                                                      ELSE Some(1))


\* The buffer holds a `{`...`}` span that JSON.parse accepts: the text from
\* the first `{` to the last `}` of the buffer without its escape sequences.
HasParseableSpan(ioBuffer) ==
  LET clean == stripAnsi(ioBuffer)
      first == IndexOf(clean, "{")
      last  == LastIndexOf(clean, "}")
  IN  /\ first >= 0
      /\ last > first
      /\ JSONparse(SubSeq(clean, first + 1, last + 1)).ok

\* Two parsed objects are deep-equal: the same members, in any order.
DeepEqual(a, b) ==
  /\ a.t = b.t /\ a.n = b.n /\ a.s = b.s
  /\ { a.m[k] : k \in 1..Len(a.m) } = { b.m[k] : k \in 1..Len(b.m) }

\* C11: stdioToJson applied to brace-free prose (escape sequences allowed),
\* then the serialization of a JSON object j, then brace-free trailing text,
\* returns an object deep-equal to j.
C11_Original ==
  (call.fn = "stdioToJson" /\ IsDefined(call.payload) /\ IsDefined(outcome))
    => /\ ~Val(outcome).threw
       /\ DeepEqual(Val(outcome).value, Val(call.payload))

\* C12: for a buffer without a parseable `{`...`}` span (empty, no braces,
\* only one kind of brace, last `}` before first `{`, or a malformed span)
\* stdioToJson returns null and does not throw.
C12_Original ==
  (call.fn = "stdioToJson" /\ IsDefined(outcome)
     /\ ~HasParseableSpan(call.ioBuffer))
    => Val(outcome) = Returned(JNull)


\* The proper ancestors of a namespace: what is left of each of its ':'.
Ancestors(n) == { SubSeq(n, 1, i - 1) : i \in { k \in 1..Len(n) : n[k] = ":" } }

CurrentlyEnabled == enabledDebugNamespaces.t

OnlyEnabled(n) == CurrentlyEnabled = {n}

\* C13: checkEnabled(n) is true exactly when n or one of its proper
\* ancestor prefixes, cut at a ':', is currently enabled; with only "A"
\* enabled "A", "A:B" and "A:B:C" are enabled, with only "A:B" enabled
\* "A:B" and "A:B:C" are enabled and "A" is not.
C13_Hierarchical ==
  /\ \A n \in CheckInputs :
       checkEnabled(n) <=> (({n} \cup Ancestors(n)) \cap CurrentlyEnabled # {})
  /\ OnlyEnabled(nsA) =>
       checkEnabled(nsA) /\ checkEnabled(nsAB) /\ checkEnabled(nsABC)
  /\ OnlyEnabled(nsAB) =>
       checkEnabled(nsAB) /\ checkEnabled(nsABC) /\ ~checkEnabled(nsA)

C13_Witness ==
  /\ OnlyEnabled(nsAB)
  /\ nsA \in enabledDebugNamespaces.f
  /\ call.fn = "disableDebuggers"

\* C14: msg, obj and str write for a namespace exactly when checkEnabled of
\* it is true or debugAll is set; before any init, and after an init
\* without the debug flag, nothing is enabled, debugAll is false and the
\* three operations write nothing.
C14_State ==
  /\ (call.fn \in {"msg", "obj", "str"}) =>
       /\ IsDefined(debugOut)
       /\ (Val(debugOut) # << >>) <=> (checkEnabled(call.arg) \/ debugAll)
  /\ (enabledDebugNamespaces = EmptyMap /\ ~debugAll) =>
       /\ \A n \in CheckInputs : ~checkEnabled(n)
       /\ IsDefined(debugOut) => Val(debugOut) = << >>

C14_Step ==
  (call'.fn = "init" /\ call'.arg \in {NoFlag, BoolFlag(FALSE)})
    => UNCHANGED << enabledDebugNamespaces, debugAll >>

C14_Start ==
  enabledDebugNamespaces = EmptyMap /\ ~debugAll /\ debugOut = Undefined

C14_Conditional == C14_Start /\ [](C14_State) /\ [][C14_Step]_vars

C14_Witness ==
  /\ call.fn = "str"
  /\ call.arg = nsABC
  /\ CurrentlyEnabled = {nsAB}
  /\ ~debugAll
  /\ Val(debugOut) # << >>


ValidatorCalled == call.fn \in Validators /\ IsDefined(outcome)

\* C15: every throwOnXxx raises exactly when the predicate isXxx it is named
\* after returns true for the same value (and the same excludeArray or class
\* argument), and returns normally otherwise.
C15_ThrowsIffPredicate ==
  ValidatorCalled =>
    (Val(outcome).threw <=>
       IsXxx(call.fn, call.arg, call.classConstructor, call.excludeArray))

C15_Witness ==
  /\ ValidatorCalled
  /\ call.fn = "InvalidObject"
  /\ call.arg = ArrayValue(2)
  /\ call.excludeArray = BoolValue(TRUE)
  /\ Val(outcome).threw

Range(s) == { s[k] : k \in 1..Len(s) }

\* What a message has to say about the value received: its constructor or
\* primitive type, and for a path the path.
Received(fn, arg) ==
  IF fn = "NonReadablePath" THEN arg.str
  ELSE IF fn \in InstanceValidators THEN ActualInstanceOf(arg)
  ELSE getObjectNameOrPrimitiveType(arg)

\* C16: whatever a throwOnXxx raises is an SfdxFalconError whose source is
\* the namespace dbgNsExt given by the caller and whose message names the
\* argument (argName, or 'the argument'), states the expected shape and
\* reports what was received.
C16_Original ==
  (ValidatorCalled /\ Val(outcome).threw) =>
    LET e == Val(outcome).error
    IN  /\ IsSfdxFalconError(e)
        /\ e.source = Val(call.dbgNsExt)
        /\ Len(e.message) >= 4
        /\ e.message[1] = "Expected "
        /\ e.message[2] = getArgumentName(call.argName)
        /\ Received(call.fn, call.arg) \in Range(e.message)


\* The first word of a command string: what stands between its leading
\* white space and the next white space, in lower case.
RECURSIVE WordOf(_)
WordOf(s) ==
  IF s = << >> \/ IsWhite(Head(s)) THEN << >>
  ELSE <<Lower(Head(s))>> \o WordOf(Tail(s))

FirstWord(commandString) == WordOf(TrimStart(commandString))

NamesProgram(commandString) ==
  FirstWord(commandString) \in { <<"s", "f">>, <<"s", "f", "d", "x">> }

MessageHasCommand(message, commandString) ==
  \/ commandString = << >>
  \/ /\ Len(message) >= 2
     /\ message[1] = "Invalid Command String: |-->"
     /\ message[2] = commandString

\* C17: constructing an SfdxTask (with a title) succeeds exactly for the
\* command strings whose first word, after leading white space and ignoring
\* case, is sf or sfdx; for every other command string it fails with an
\* SfdxFalconError whose message contains the command string.
C17_Original ==
  (call.fn = "SfdxTask" /\ call.title # "" /\ IsDefined(outcome)) =>
    /\ ~Val(outcome).threw <=> NamesProgram(call.commandString)
    /\ Val(outcome).threw =>
         /\ IsSfdxFalconError(Val(outcome).error)
         /\ MessageHasCommand(Val(outcome).error.message, call.commandString)


WrapCalled == call.fn = "wrap" /\ outcome.results # << >>

ThrownStructured ==
  /\ call.fn = "wrap"
  /\ call.thrown.kind = "ref"
  /\ InstanceOfSfdxFalconError(call.object[1])

\* C18: for every thrown value and all sources, wrap applied to what wrap
\* returned gives that same instance, unchanged; wrap applied to a value
\* that is already a structured error returns that instance unchanged.
C18_State ==
  /\ WrapCalled =>
       \A k \in 1..Len(outcome.results) :
         outcome.results[k] = outcome.results[1]
  /\ (WrapCalled /\ ThrownStructured) =>
       /\ outcome.results[1] = call.thrown.id
       /\ outcome.heap = call.object

C18_Step == WrapCalled => outcome'.heap = outcome.heap

C18_Idempotent == [](C18_State) /\ [][C18_Step]_vars

C18_Witness ==
  /\ WrapCalled
  /\ ~ThrownStructured
  /\ call.thrown.kind = "ref"
  /\ call.sources = << Some("A"), Some("B") >>
  /\ outcome.results = << 2, 2 >>

\* C19: for a thrown value that is not an Error, wrap returns a generic
\* 'unknown error' SfdxFalconError whose detail holds the value as
\* unknownObj; for a native Error it returns an SfdxFalconError with the
\* message and the name of the original.
C19_Original ==
  (WrapCalled /\ ~ThrownStructured) =>
    LET e == outcome.heap[outcome.results[1]]
    IN  /\ IsSfdxFalconError(e)
        /\ call.thrown.kind = "value" =>
             /\ e.name = "UnknownError"
             /\ e.detail = UnknownObj(call.thrown.val)
        /\ call.thrown.kind = "ref" =>
             /\ e.message = call.object[1].message
             /\ e.name = call.object[1].name


CliErrorBuilt ==
  call.fn = "SfdxCliError" /\ IsDefined(call.payload) /\ IsDefined(outcome)

\* C20: for a stdout buffer that parses as a JSON object the SfdxCliError
\* takes name, message and status from the payload and not from the
\* unparseable fallback: its message includes the payload's message and its
\* status is the payload's status when that is a number and 1 otherwise,
\* also when the payload has neither `result` nor `stack`.
C20_Original ==
  CliErrorBuilt =>
    LET payload == Val(call.payload)
        built   == Val(outcome)
        status  == Get(payload, kStatus)
    IN  /\ built.cliError.name # UnparseableName
        /\ JTruthy(Get(payload, kMessage)) =>
             /\ built.cliError.message = Val(Get(payload, kMessage))
             /\ built.error.message[3] = Val(Get(payload, kMessage))
        /\ built.cliError.status =
             IF IsDefined(status) /\ Val(status).t = "num" THEN Val(status)
                                                           ELSE JNum(1)

\* ------------------------------------------------------------------ C21, C22
CtorCalled(fn) == call.fn = fn /\ IsDefined(outcome)

\* JSON.parse(stdoutBuffer) returns a value.
ParseableStdout == JSONparse(TextOf(ArgValue(call.stdout))).ok

\* C21: constructing an SfdxCliError or a ShellError never throws, whatever
\* the command, stdout and stderr are; and for a stdout that JSON.parse
\* rejects the cliError has the unparseable shape: name UnparseableCliError,
\* status 999 and result {rawResult: <the stdout given>}.
C21_Original ==
  /\ CtorCalled("SfdxCliError") \/ CtorCalled("ShellError") =>
       ~Val(outcome).threw
  /\ CtorCalled("SfdxCliError") /\ ~ParseableStdout /\ ~Val(outcome).threw =>
       LET cliError == Val(outcome).detail
       IN  /\ cliError.name = UnparseableName
           /\ cliError.status = JNum(999)
           /\ cliError.result = RawResult(ArgValue(call.stdout))

\* The first line of a text: up to its first newline, all of it when it
\* has none.
FirstLine(s) ==
  IF IndexOf(s, Newline) = -1 THEN s ELSE SubSeq(s, 1, IndexOf(s, Newline))

\* C22: a ShellError built without a message has as its message the first
\* line of stderr when stderr is a non-empty string (all of stderr when it
\* has no newline), else the first line of stdout when stdout is a non-empty
\* string, else 'Unknown Shell Error (code=<c>, signal=<s>)'.
C22_Original ==
  CtorCalled("ShellError") /\ ~IsDefined(call.message) =>
    LET expected ==
          IF NonEmptyString(call.stderr)
            THEN TextMessage(FirstLine(Val(call.stderr).s))
          ELSE IF NonEmptyString(call.stdout)
            THEN TextMessage(FirstLine(Val(call.stdout).s))
          ELSE UnknownShellError(ArgValue(call.code), ArgValue(call.signal))
    IN  /\ Val(outcome).detail.message = expected
        /\ Val(outcome).error.message = expected

\* ----------------------------------------------------------------------- C23
\* Task i has thrown to Listr from the throw statement that ends the catch
\* block: its command failed and its onError hook, if any, returned.
RaisedCommandFailure(i) ==
  /\ rt[i].status = "failed"
  /\ rt[i].proc = "fail"
  /\ Val(rt[i].thrown) # HookError(i)

\* C23: when a task's command fails and suppressErrors is false, the error
\* the task function throws to Listr is an SfdxCliError that wraps the
\* process failure: it has a cliError detail (command, status, stdout,
\* stderr) and the process failure as its cause.
C23_Original ==
  \A i \in 1..Len(rt) :
    RaisedCommandFailure(i) /\ ~tasks[i].suppressErrors =>
      LET e == Val(rt[i].thrown)
      IN  /\ e.class = "SfdxCliError"
          /\ "cliError" \in DOMAIN e
          /\ e.cause = Some(ProcessError(i))

\* ----------------------------------------------------------------------- C24
Rendered(target) ==
  call.fn = "renderError" /\ call.target = target /\ IsDefined(outcome)

Has(sections, label) == \E k \in 1..Len(sections) : sections[k] = label

\* A value is carried: it is neither undefined nor null.
Carried(v) == v.t \notin {"undefined", "null"}

\* C24: renderError of an SfdxCliError has a command-line section and an
\* exit-status section whenever the error carries a command and a status,
\* a warnings, a stdout and a stderr section whenever these are present, the
\* raw-result section only at a child inspection depth of 2 or more and the
\* CLI stack section only at 5 or more; renderError of a value that is not
\* an Error is the generic report.
C24_Original ==
  /\ Rendered("SfdxCliError") =>
       LET cliError == ErrorToRender(call).detail
           sections == Val(outcome)
           depth    == ChildInspectDepth(call.depth)
       IN  /\ Carried(cliError.command) /\ Carried(cliError.status) =>
                /\ Has(sections, "CLI Command")
                /\ Has(sections, "CLI Error Status")
           /\ ~IsEmptyValue(cliError.warnings) =>
                Has(sections, "CLI Error Warnings")
           /\ ~IsEmptyValue(cliError.stdout) => Has(sections, "CLI Error StdOut")
           /\ ~IsEmptyValue(cliError.stderr) => Has(sections, "CLI Error StdErr")
           /\ Has(sections, "CLI Error Raw Result") => depth >= 2
           /\ Has(sections, "CLI Error Stack") => depth >= 5
  /\ Rendered("value") => Val(outcome) = renderUnknownDetail

\* ----------------------------------------------------------------------- C25
\* C25: isRunning follows the runner's state machine: false from the
\* construction until runTasks is called, true while the batch runs, and
\* false again once the batch has completed or failed.
C25_Original ==
  trInstance # Null =>
    /\ run.state = "idle" => isRunning = FALSE
    /\ run.state = "running" => isRunning = TRUE
    /\ run.state \in {"resolved", "rejected"} => isRunning = FALSE

\* ----------------------------------------------------------------------- C26
RECURSIVE Reverse(_)
Reverse(s) == IF s = << >> THEN << >> ELSE Append(Reverse(Tail(s)), Head(s))

StackLines(items) == [k \in 1..Len(items) |-> StackLine(items[k])]

\* C26: the result stack reads newest entry first: after addToStack(x1),
\* ..., addToStack(xn) it lists xn, ..., x1, one indented line each, above
\* the result stack of the cause the error was constructed with (nothing,
\* when it had none); and the error that rejects runTasks has one entry
\* from each layer it crossed: the runner and, for a failed command, the
\* failing task.
C26_Original ==
  /\ IsDefined(errOut) =>
       LET given == IF call.fn = "addToStack" THEN call.items ELSE << >>
           below == IF IsDefined(errIn.cause)
                      THEN ResultStackOf(Val(errIn.cause)) ELSE << >>
       IN  Val(errOut).resultStack = Reverse(StackLines(given)) \o below
  /\ run.state = "rejected" =>
       LET stack == Val(run.error).resultStack
       IN  /\ Len(stack) >= 1
           /\ (\E i \in 1..Len(rt) : RaisedCommandFailure(i)) => Len(stack) >= 2

\* ----------------------------------------------------------------------- C27
\* Where an event stands in the trace of a task function (0: nowhere).
PositionOf(trace, name) ==
  IF \E k \in 1..Len(trace) : trace[k].ev = name
    THEN CHOOSE k \in 1..Len(trace) :
           trace[k].ev = name /\ \A j \in 1..(k - 1) : trace[j].ev # name
    ELSE 0

RenderedDiagnostics(i) == PositionOf(rt[i].trace, "render") > 0

\* JSON was found in a buffer: the text between its first { and its last }
\* parses.
JsonFoundIn(buffer) ==
  /\ IndexOf(stripAnsi(buffer), "{") >= 0
  /\ JSONparse(Substring(stripAnsi(buffer), IndexOf(stripAnsi(buffer), "{"),
                         LastIndexOf(stripAnsi(buffer), "}") + 1)).ok

\* How the claim has a buffer shown.
ShownAsClaimed(buffer) ==
  IF JsonFoundIn(buffer)
    THEN [as |-> "object", text |-> << >>,
          json |-> JSONparse(Substring(stripAnsi(buffer),
                                       IndexOf(stripAnsi(buffer), "{"),
                                       LastIndexOf(stripAnsi(buffer), "}") + 1)).v]
    ELSE [as |-> "string", text |-> buffer, json |-> JNull]

\* C27: the diagnostics (command line, stderr and stdout, each as parsed
\* JSON when JSON was found in it and as raw text otherwise) are rendered
\* for a task if and only if its command failed, suppressErrors is false
\* and renderStdioOnError is true; and they are rendered after the onError
\* hook has returned and before the error is thrown to Listr.
C27_Original ==
  \A i \in 1..Len(rt) :
    LET t     == tasks[i]
        trace == rt[i].trace
        at    == PositionOf(trace, "render")
    IN  /\ Settled(rt[i]) =>
             (RenderedDiagnostics(i) <=>
                rt[i].proc = "fail" /\ ~t.suppressErrors /\ t.renderStdioOnError)
        /\ RenderedDiagnostics(i) =>
             /\ trace[at].shown[1] =
                  [command |-> t.commandString,
                   stderr  |-> ShownAsClaimed(ProcessStdio.stderr),
                   stdout  |-> ShownAsClaimed(ProcessStdio.stdout)]
             /\ t.onError => /\ PositionOf(trace, "hookReturned") > 0
                             /\ PositionOf(trace, "hookReturned") < at
             /\ Settled(rt[i]) => at < PositionOf(trace, "throw")

\* ----------------------------------------------------------------------- C28
HookCalls(i, hook) ==
  { k \in 1..Len(rt[i].calls) : rt[i].calls[k].hook = hook }

\* C28: in one execution of a task at most one of its hooks is invoked:
\* onSuccess only when the command succeeded, and onError only when the
\* command itself failed, with the process failure as its argument; an
\* exception thrown by onSuccess does not lead to a call of onError.
C28_Original ==
  \A i \in 1..Len(rt) :
    /\ Len(rt[i].calls) <= 1
    /\ HookCalls(i, "onSuccess") # {} => rt[i].proc = "ok"
    /\ \A k \in HookCalls(i, "onError") :
         /\ rt[i].proc = "fail"
         /\ rt[i].calls[k].arg = ProcessError(i)

\* ----------------------------------------------------------------------- C29
\* C29: a task constructed with suppressErrors true never makes runTasks
\* reject, whatever its command does and whatever its hooks do, throwing
\* included: its task function never throws to Listr, and a rejected batch
\* has a failed task that does not suppress errors.
C29_Original ==
  /\ \A i \in 1..Len(rt) : tasks[i].suppressErrors => rt[i].status # "failed"
  /\ run.state = "rejected" =>
       \E i \in 1..Len(rt) : rt[i].status = "failed" /\ ~tasks[i].suppressErrors

\* ----------------------------------------------------------------------- C30
\* The arguments the claim calls invalid: null, undefined, anything that is
\* not an object, an array, and an object without members.
InvalidTaskArgument(a) ==
  \/ a.isNull
  \/ a.typeof # "object"
  \/ a.isArray
  \/ a.size = 0

\* This step is a call of addTask with something that is no SfdxTask.
AddTaskCalled == call' # call /\ call'.fn = "addTask"

C30_Step ==
  AddTaskCalled =>
    /\ InvalidTaskArgument(call'.arg) =>
         /\ Val(outcome').threw
         /\ IsSfdxFalconError(Val(outcome').error)
         /\ tasks' = tasks
         /\ heap' = heap
    /\ ~InvalidTaskArgument(call'.arg) /\ ~Val(outcome').threw =>
         /\ tasks' = Append(tasks, RawTask(call'.arg))
         /\ heap' = heap

\* C30: addTask called with null, undefined, a non-object, an array or an
\* empty object throws an SfdxFalconError and leaves the task list and the
\* context (commandStrings included) as they were; and a raw task that is
\* accepted is appended to the task list while commandStrings stays as it
\* was.
C30_FrameKept == [][C30_Step]_vars

C30_Witness ==
  /\ call.fn = "addTask"
  /\ call.arg = ArrayValue(2)
  /\ Val(outcome).threw
  /\ Len(tasks) = 1
  /\ heap[ctx].commandStrings = ArrayVal(<< tasks[1].commandString >>)

====
